---- MODULE Spec2Model ----
(***************************************************************************)
(* Edge data pipeline of the bioprocess twin: the orchestrator             *)
(* (app/pipeline.py, DataPipeline), its control surface (app/main.py) and  *)
(* the parts of the gateway, the cleaner and the engineer that the         *)
(* orchestrator drives.                                                    *)
(*                                                                         *)
(* Threads.  The control surface runs on the asyncio event loop (thread    *)
(* 0): every handler of main.py is an `async def` without an await, so     *)
(* handlers never interleave with each other.  run_pipeline_async hands    *)
(* run_continuous to the default executor, so each worker loop is a pool   *)
(* thread (threads 1..MaxWorkers) that interleaves freely with the event   *)
(* loop and with the other workers, one stage of process_window at a time. *)
(***************************************************************************)
EXTENDS Integers, Sequences, FiniteSets, TLC

\* ---- bounds -----------------------------------------------------------
MaxWorkers == 2   \* worker launches that are modelled
MaxCycles == 2    \* cap of cycle_count
MaxStat == 1      \* cap of every QualityStats counter
MaxHist == 1      \* cap of every cumulative sum (in units of rate * dt)
MaxLen == 4       \* rows of the short windows clean_window is applied to
LongLen == 12     \* rows of the long windows (one sample off a constant level)

LoopThread == 0
Workers == 1..MaxWorkers
Threads == 0..MaxWorkers

VARIABLES
    pc,             \* position of every thread
    is_running,     \* DataPipeline.is_running
    cycle_count,    \* DataPipeline.cycle_count
    quality_stats,  \* DataCleaner.quality_stats
    history,        \* FeatureEngineer.history
    influx_closed,  \* InfluxClient.close() has been called
    stop_requested, \* stop() was called and no start launched a worker since
    http_status,    \* status of the response to the last request, 0 while unanswered
    raw_windows,    \* process_window local: what the fetch stage returned
    read_error,     \* the fetch of this cycle hit a query error
    wrote,          \* the cycle published its feature point
    result,         \* what process_window handed to its caller
    step,           \* position of the cycle that is followed value by value
    sensor_windows, \* its raw windows: tag -> DataFrame
    cleaned_windows,\* its cleaned windows: tag -> values
    quality_reports,\* its quality reports: tag -> report
    feature_set,    \* its FeatureSet: name -> value
    lines,          \* the fields of the point handed to write_api.write
    alerts,         \* the alerts published for it
    loaded,         \* the counter a thread has read in a "+=" it has not completed
    db,             \* the batch records of the lab application: batch_id -> row with its children
    requests,       \* requests of the lab application between their queries and their commit
    response        \* the last response of the lab application

vars == <<pc, is_running, cycle_count, quality_stats, history, influx_closed,
          stop_requested, http_status, raw_windows, read_error, wrote, result,
          step, sensor_windows, cleaned_windows, quality_reports, feature_set, lines, alerts,
          loaded, db, requests, response>>

\* the cycle that is followed value by value, and the statements that are
\* followed one by one
data == <<step, sensor_windows, cleaned_windows, quality_reports, feature_set, lines, alerts,
          loaded, db, requests, response>>

shared == <<is_running, cycle_count, quality_stats, history, influx_closed,
            stop_requested>>

\* ---- data_cleaning.py ---------------------------------------------------
StatKeys == {"missing_count", "outlier_count", "invalid_count",
             "interpolated_count", "kalman_filtered_count"}

\* DataCleaner.__init__: all counters start at 0
InitialStats == [k \in StatKeys |-> 0]

\* The quality reports a cycle's clean stage is fed with (the sum over the
\* tags of the cycle): clean windows, or a short gap repaired by linear
\* interpolation.
QualityReports ==
    { [missing_count |-> 0, interpolation_method |-> "none",   invalid_values |-> 0, outliers_detected |-> 0],
      [missing_count |-> 1, interpolation_method |-> "linear", invalid_values |-> 0, outliers_detected |-> 0] }

\* clean_window / _handle_missing: the counters after a report
update_stats(stats, report) ==
    [stats EXCEPT
       !["missing_count"] = @ + report.missing_count,
       !["outlier_count"] = @ + report.outliers_detected,
       !["invalid_count"] = @ + report.invalid_values,
       !["interpolated_count"] =
            IF report.interpolation_method = "linear" THEN @ + report.missing_count ELSE @,
       !["kalman_filtered_count"] =
            IF report.interpolation_method = "kalman" THEN @ + report.missing_count ELSE @]

StatsWithinBound(stats) == \A k \in StatKeys : stats[k] <= MaxStat

\* DataCleaner.reset_stats with one counter forgotten
reset_stats_forgets_kalman(stats) ==
    [k \in DOMAIN stats |-> IF k = "kalman_filtered_count" THEN stats[k] ELSE 0]

\* DataCleaner.reset_stats
reset_stats(stats) == [k \in DOMAIN stats |-> 0]

\* ---- floating point -----------------------------------------------------
\* Sample and feature values are float64.  A finite value is an integer count
\* of hundredths of the unit of its signal; FloatMax stands for the largest
\* finite float64, and the three values that are not finite are kept apart.
FloatMax == 1000000000
Inf == FloatMax + 1
NegInf == 0 - Inf
NaN == FloatMax + 2

isna(x) == x = NaN
isfinite(x) == x \notin {NaN, Inf, NegInf}

\* a result that left the finite range overflows to an infinity
FRound(x) == IF x > FloatMax THEN Inf ELSE IF x < 0 - FloatMax THEN NegInf ELSE x

FAdd(a, b) ==
    IF isna(a) \/ isna(b) \/ {a, b} = {Inf, NegInf} THEN NaN
    ELSE IF Inf \in {a, b} THEN Inf
    ELSE IF NegInf \in {a, b} THEN NegInf
    ELSE FRound(a + b)

\* a / n and a * n for a positive count n
FDivN(a, n) == IF isfinite(a) THEN a \div n ELSE a
FMulN(a, n) == IF isfinite(a) THEN FRound(a * n) ELSE a

FNeg(a) == IF isna(a) THEN NaN ELSE 0 - a
FSub(a, b) == FAdd(a, FNeg(b))
FAbs(a) == IF isna(a) THEN NaN ELSE IF a < 0 THEN 0 - a ELSE a

\* comparisons with NaN are false
FLt(a, b) == ~isna(a) /\ ~isna(b) /\ a < b
FGt(a, b) == FLt(b, a)
FGe(a, b) == ~isna(a) /\ ~isna(b) /\ a >= b

Abs(x) == IF x < 0 THEN 0 - x ELSE x

\* largest r with r * r <= n
RECURSIVE SqrtBetween(_, _, _)
SqrtBetween(n, lo, hi) ==
    IF lo >= hi THEN lo
    ELSE LET mid == (lo + hi + 1) \div 2
         IN IF mid * mid <= n THEN SqrtBetween(n, mid, hi)
                              ELSE SqrtBetween(n, lo, mid - 1)

Sqrt(n) == SqrtBetween(n, 0, IF n < 46340 THEN n ELSE 46340)

\* values of a DataFrame column
Values(df) == [i \in 1..Len(df) |-> df[i].value]

Count(vs, P(_)) == Cardinality({i \in 1..Len(vs) : P(vs[i])})

\* np.sum / np.mean: left to right in float64
Sum(vs) ==
    LET acc[i \in 0..Len(vs)] == IF i = 0 THEN 0 ELSE FAdd(acc[i - 1], vs[i])
    IN acc[Len(vs)]

Mean(vs) == IF Len(vs) = 0 THEN NaN ELSE FDivN(Sum(vs), Len(vs))

\* every value is finite and small enough for its square not to overflow
Computable(vs) == \A i \in 1..Len(vs) : isfinite(vs[i]) /\ Abs(vs[i]) < FloatMax

\* exact sum of integers
IntSum(xs) ==
    LET acc[i \in 0..Len(xs)] == IF i = 0 THEN 0 ELSE acc[i - 1] + xs[i]
    IN acc[Len(xs)]

\* n^2 times the population variance, exact for computable values
VarianceN2(vs) ==
    LET n == Len(vs)
        S == IntSum(vs)
        Q == IntSum([i \in 1..n |-> vs[i] * vs[i]])
    IN n * Q - S * S

\* dict.get(key, default) and dict.update(other)
Get(d, k, default) == IF k \in DOMAIN d THEN d[k] ELSE default
Update(d, other) ==
    [k \in DOMAIN d \cup DOMAIN other |-> IF k \in DOMAIN other THEN other[k] ELSE d[k]]

\* ---- config.py ----------------------------------------------------------
window_size_seconds == 30
max_missing_duration_interpolate_minutes == 5
max_missing_duration_kalman_minutes == 30
outlier_zscore_threshold == 3
\* process constants: 0.9 l in tenths, 1.013 bar in thousandths, 0.21 in hundredths
working_volume_l == 9
standard_pressure_bar == 1013
air_o2_fraction == 21

\* Settings.physical_bounds, in hundredths
physical_bounds ==
    [pH |-> [min |-> 200, max |-> 1000],
     DO |-> [min |-> 0, max |-> 10000],
     OD |-> [min |-> 0, max |-> 10000],
     Temp_Broth |-> [min |-> 2000, max |-> 4000],
     Temp_pH_Probe |-> [min |-> 2000, max |-> 4000],
     Temp_DO_Probe |-> [min |-> 2000, max |-> 4000],
     Temp_Stirrer_Motor |-> [min |-> 1500, max |-> 10000],
     Temp_Exhaust |-> [min |-> 2000, max |-> 5000],
     Gas_MFC_air |-> [min |-> 0, max |-> 300],
     Stir_SP |-> [min |-> 0, max |-> 120000],
     Stir_torque |-> [min |-> 0, max |-> 10000],
     Reactor_Pressure |-> [min |-> 80, max |-> 160],
     Weight |-> [min |-> 0, max |-> 1500],
     Heater_PID_out |-> [min |-> 0, max |-> 10000],
     Base_Pump_Rate |-> [min |-> 0, max |-> 1500],
     Off_Gas_CO2 |-> [min |-> 0, max |-> 1000],
     Off_Gas_O2 |-> [min |-> 1500, max |-> 2500],
     Gas_Flow_Inlet |-> [min |-> 0, max |-> 300],
     Gas_Flow_Outlet |-> [min |-> 0, max |-> 350]]

\* ---- data_cleaning.py: clean_window -------------------------------------
\* A DataFrame is a sequence of rows [time |-> seconds, value |-> float].

\* df.sort_values("_time").reset_index(drop=True): stable, ascending
RECURSIVE sort_values(_)
sort_values(df) ==
    IF Len(df) <= 1 THEN df
    ELSE LET head == sort_values(SubSeq(df, 1, Len(df) - 1))
             last == df[Len(df)]
             k == Cardinality({i \in 1..Len(head) : head[i].time <= last.time})
         IN SubSeq(head, 1, k) \o <<last>> \o SubSeq(head, k + 1, Len(head))

\* (df["_time"].max() - df["_time"].min()).total_seconds()
time_diff(df) ==
    LET ts == {df[i].time : i \in 1..Len(df)}
    IN (CHOOSE hi \in ts : \A t \in ts : t <= hi) - (CHOOSE lo \in ts : \A t \in ts : lo <= t)

\* _handle_missing with the thresholds themselves taken into the lower mode
interpolation_method_inclusive(df) ==
    LET missing_count == Count(Values(df), isna)
        scaled == missing_count * time_diff(df)
    IN IF missing_count = 0 THEN "none"
       ELSE IF scaled <= max_missing_duration_interpolate_minutes * 60 * Len(df) THEN "linear"
       ELSE IF scaled <= max_missing_duration_kalman_minutes * 60 * Len(df) THEN "kalman"
       ELSE "failed"

\* the branch _handle_missing takes: missing_duration_minutes =
\* (missing_count / len(df)) * (time_diff / 60) against the two thresholds
interpolation_method(df) ==
    LET missing_count == Count(Values(df), isna)
        scaled == missing_count * time_diff(df)
    IN IF missing_count = 0 THEN "none"
       ELSE IF scaled < max_missing_duration_interpolate_minutes * 60 * Len(df) THEN "linear"
       ELSE IF scaled < max_missing_duration_kalman_minutes * 60 * Len(df) THEN "kalman"
       ELSE "failed"

\* Series.interpolate(method="linear", limit_direction="both"): by position
\* between the neighbouring valid values, nearest valid value at the ends
interpolate(vs) ==
    [i \in 1..Len(vs) |->
        IF ~isna(vs[i]) THEN vs[i]
        ELSE LET before == {j \in 1..(i - 1) : ~isna(vs[j])}
                 after == {j \in (i + 1)..Len(vs) : ~isna(vs[j])}
                 p == CHOOSE j \in before : \A m \in before : m <= j
                 q == CHOOSE j \in after : \A m \in after : j <= m
             IN IF before = {} /\ after = {} THEN NaN
                ELSE IF before = {} THEN vs[q]
                ELSE IF after = {} THEN vs[p]
                ELSE vs[p] + ((vs[q] - vs[p]) * (i - p)) \div (q - p)]

\* fillna(method="ffill").fillna(method="bfill")
ffill_bfill(vs) ==
    [i \in 1..Len(vs) |->
        IF ~isna(vs[i]) THEN vs[i]
        ELSE LET before == {j \in 1..(i - 1) : ~isna(vs[j])}
                 after == {j \in (i + 1)..Len(vs) : ~isna(vs[j])}
             IN IF before # {} THEN vs[CHOOSE j \in before : \A m \in before : m <= j]
                ELSE IF after # {} THEN vs[CHOOSE j \in after : \A m \in after : j <= m]
                ELSE NaN]

\* What KalmanFilter.smooth can hand back for a series with NaN in it: an
\* estimate for every row, or NaN for every row (the NaN observations are
\* not masked).  An exception falls back to the fill.
KalmanOutcomes == {"estimated", "nan", "exception"}

\* _apply_kalman_filter; the estimate of a row is represented by the nearest
\* valid measurement
_apply_kalman_filter(vs, outcome) ==
    IF Count(vs, LAMBDA v : ~isna(v)) < 2 THEN ffill_bfill(vs)
    ELSE IF outcome = "nan" THEN [i \in 1..Len(vs) |-> NaN]
    ELSE ffill_bfill(vs)

\* _handle_missing: the values after the stage and its part of the report
_handle_missing(df, outcome) ==
    LET vs == Values(df)
        missing_count == Count(vs, isna)
        method == interpolation_method(df)
    IN [values |-> CASE method = "none" -> vs
                     [] method = "linear" -> interpolate(vs)
                     [] method = "kalman" -> _apply_kalman_filter(vs, outcome)
                     [] OTHER -> vs,
        report |-> IF method = "failed"
                   THEN [missing_count |-> missing_count, interpolation_method |-> method,
                         alarm |-> "missing_data_too_long"]
                   ELSE [missing_count |-> missing_count, interpolation_method |-> method]]

\* the rows whose |z| exceeds the threshold: |v - mean| / std > 3, both sides
\* multiplied by n and squared
outlier_mask(vs) ==
    {i \in 1..Len(vs) :
        (Len(vs) * vs[i] - IntSum(vs)) * (Len(vs) * vs[i] - IntSum(vs))
            > outlier_zscore_threshold * outlier_zscore_threshold * VarianceN2(vs)}

\* _handle_outliers: with NaN or an overflow in the series mean and std are
\* not numbers, no z-score exceeds the threshold and nothing is clipped;
\* otherwise np.clip to [mean - 3 std, mean + 3 std], rounded down to the unit
_handle_outliers(vs) ==
    IF Len(vs) < 3 \/ ~Computable(vs) THEN [values |-> vs, report |-> [outliers_detected |-> 0]]
    ELSE IF VarianceN2(vs) = 0 \/ outlier_mask(vs) = {}
         THEN [values |-> vs, report |-> [outliers_detected |-> 0]]
    ELSE LET n == Len(vs)
             S == IntSum(vs)
             R == Sqrt(9 * VarianceN2(vs))
             lower_bound == (S - R) \div n
             upper_bound == (S + R) \div n
         IN [values |-> [i \in 1..n |->
                            IF vs[i] < lower_bound THEN lower_bound
                            ELSE IF vs[i] > upper_bound THEN upper_bound ELSE vs[i]],
             report |-> [outliers_detected |-> Cardinality(outlier_mask(vs))]]

\* _validate_bounds testing the upper bound only
_validate_bounds_max_only(vs, tag) ==
    IF tag \notin DOMAIN physical_bounds
    THEN [values |-> vs, report |-> [invalid_values |-> 0, alarm |-> "None"]]
    ELSE LET invalid_mask == {i \in 1..Len(vs) : FGt(vs[i], physical_bounds[tag].max)}
         IN IF invalid_mask = {}
            THEN [values |-> vs, report |-> [invalid_values |-> 0, alarm |-> "None"]]
            ELSE [values |-> [i \in 1..Len(vs) |-> IF i \in invalid_mask THEN NaN ELSE vs[i]],
                  report |-> [invalid_values |-> Cardinality(invalid_mask),
                              alarm |-> "physical_bounds_violation"]]

\* _validate_bounds: physical_bounds.get(tag); values outside become NaN
_validate_bounds(vs, tag) ==
    IF tag \notin DOMAIN physical_bounds
    THEN [values |-> vs, report |-> [invalid_values |-> 0, alarm |-> "None"]]
    ELSE LET invalid_mask == {i \in 1..Len(vs) :
                                 \/ FLt(vs[i], physical_bounds[tag].min)
                                 \/ FGt(vs[i], physical_bounds[tag].max)}
         IN IF invalid_mask = {}
            THEN [values |-> vs, report |-> [invalid_values |-> 0, alarm |-> "None"]]
            ELSE [values |-> [i \in 1..Len(vs) |-> IF i \in invalid_mask THEN NaN ELSE vs[i]],
                  report |-> [invalid_values |-> Cardinality(invalid_mask),
                              alarm |-> "physical_bounds_violation"]]

\* clean_window: sort, then the three stages, each updating the report
clean_window(df, tag, outcome) ==
    IF Len(df) = 0 THEN [values |-> <<>>, report |-> [status |-> "empty", action |-> "none"]]
    ELSE LET sorted == sort_values(df)
             missing == _handle_missing(sorted, outcome)
             outliers == _handle_outliers(missing.values)
             bounds == _validate_bounds(outliers.values, tag)
             quality_report == [tag |-> tag, original_count |-> Len(df),
                                outliers_detected |-> 0, invalid_values |-> 0,
                                action |-> "none"]
         IN [values |-> bounds.values,
             report |-> Update(Update(Update(quality_report, missing.report),
                                      outliers.report), bounds.report)]

\* the counters after clean_window produced this report (an empty window
\* returns before they are touched)
stats_after(stats, report) ==
    IF "status" \in DOMAIN report THEN stats ELSE update_stats(stats, report)

\* ---- feature_engineering.py ---------------------------------------------
CumKeys == {"cumulative_CO2", "cumulative_O2", "cumulative_OD"}

\* FeatureEngineer.__init__ / reset_history: history = {}
EmptyHistory == [k \in {} |-> 0]

\* The rates one engineer cycle integrates, already multiplied by dt:
\* features.get("CER", 0) * dt, features.get("OUR", 0) * dt, OD_mean * dt.
ZeroRates == [CER |-> 0, OUR |-> 0, OD_mean |-> 0]
RateInputs == {ZeroRates, [CER |-> 1, OUR |-> 1, OD_mean |-> 1]}

\* _compute_cumulative_features with sums created at one unit instead of 0
integrate_from_one(hist, rates) ==
    LET h0 == IF "cumulative_CO2" \in DOMAIN hist THEN hist ELSE [k \in CumKeys |-> 1]
    IN [h0 EXCEPT !["cumulative_CO2"] = FAdd(@, rates.CER),
                  !["cumulative_O2"]  = FAdd(@, rates.OUR),
                  !["cumulative_OD"]  = FAdd(@, rates.OD_mean)]

\* _compute_cumulative_features: create the sums on first use, then add
integrate(hist, rates) ==
    LET h0 == IF "cumulative_CO2" \in DOMAIN hist THEN hist ELSE [k \in CumKeys |-> 0]
    IN [h0 EXCEPT !["cumulative_CO2"] = FAdd(@, rates.CER),
                  !["cumulative_O2"]  = FAdd(@, rates.OUR),
                  !["cumulative_OD"]  = FAdd(@, rates.OD_mean)]

HistWithinBound(hist) == \A k \in DOMAIN hist : hist[k] <= MaxHist

\* FeatureEngineer.reset_history
reset_history(hist) == EmptyHistory

\* ---- feature_engineering.py: engineer_features --------------------------
\* f"{tag}_mean" and the other four names, for the tags whose windows the
\* model fills
feature_name ==
    [pH |-> [mean |-> "pH_mean", std |-> "pH_std", min |-> "pH_min", max |-> "pH_max", slope |-> "pH_slope"],
     DO |-> [mean |-> "DO_mean", std |-> "DO_std", min |-> "DO_min", max |-> "DO_max", slope |-> "DO_slope"],
     OD |-> [mean |-> "OD_mean", std |-> "OD_std", min |-> "OD_min", max |-> "OD_max", slope |-> "OD_slope"],
     stirrer_motor |-> [mean |-> "stirrer_motor_mean", std |-> "stirrer_motor_std", min |-> "stirrer_motor_min", max |-> "stirrer_motor_max", slope |-> "stirrer_motor_slope"],
     Temp_Stirrer_Motor |-> [mean |-> "Temp_Stirrer_Motor_mean", std |-> "Temp_Stirrer_Motor_std", min |-> "Temp_Stirrer_Motor_min", max |-> "Temp_Stirrer_Motor_max", slope |-> "Temp_Stirrer_Motor_slope"],
     Temp_Broth |-> [mean |-> "Temp_Broth_mean", std |-> "Temp_Broth_std", min |-> "Temp_Broth_min", max |-> "Temp_Broth_max", slope |-> "Temp_Broth_slope"],
     Temp_Exhaust |-> [mean |-> "Temp_Exhaust_mean", std |-> "Temp_Exhaust_std", min |-> "Temp_Exhaust_min", max |-> "Temp_Exhaust_max", slope |-> "Temp_Exhaust_slope"],
     Temp_pH_Probe |-> [mean |-> "Temp_pH_Probe_mean", std |-> "Temp_pH_Probe_std", min |-> "Temp_pH_Probe_min", max |-> "Temp_pH_Probe_max", slope |-> "Temp_pH_Probe_slope"],
     Temp_DO_Probe |-> [mean |-> "Temp_DO_Probe_mean", std |-> "Temp_DO_Probe_std", min |-> "Temp_DO_Probe_min", max |-> "Temp_DO_Probe_max", slope |-> "Temp_DO_Probe_slope"],
     Gas_Flow_Inlet |-> [mean |-> "Gas_Flow_Inlet_mean", std |-> "Gas_Flow_Inlet_std", min |-> "Gas_Flow_Inlet_min", max |-> "Gas_Flow_Inlet_max", slope |-> "Gas_Flow_Inlet_slope"],
     Gas_Flow_Outlet |-> [mean |-> "Gas_Flow_Outlet_mean", std |-> "Gas_Flow_Outlet_std", min |-> "Gas_Flow_Outlet_min", max |-> "Gas_Flow_Outlet_max", slope |-> "Gas_Flow_Outlet_slope"],
     Off_Gas_CO2 |-> [mean |-> "Off_Gas_CO2_mean", std |-> "Off_Gas_CO2_std", min |-> "Off_Gas_CO2_min", max |-> "Off_Gas_CO2_max", slope |-> "Off_Gas_CO2_slope"],
     Off_Gas_O2 |-> [mean |-> "Off_Gas_O2_mean", std |-> "Off_Gas_O2_std", min |-> "Off_Gas_O2_min", max |-> "Off_Gas_O2_max", slope |-> "Off_Gas_O2_slope"],
     Reactor_Pressure |-> [mean |-> "Reactor_Pressure_mean", std |-> "Reactor_Pressure_std", min |-> "Reactor_Pressure_min", max |-> "Reactor_Pressure_max", slope |-> "Reactor_Pressure_slope"]]

\* Series.mean(): NaN rows are skipped, NaN for a missing or empty window
series_mean(windows, tag) ==
    LET vs == IF tag \in DOMAIN windows THEN windows[tag] ELSE <<>>
        valid == SelectSeq(vs, LAMBDA v : ~isna(v))
    IN Mean(valid)

\* np.min / np.max: NaN if any row is NaN
np_min(vs) ==
    IF \E i \in 1..Len(vs) : isna(vs[i]) THEN NaN
    ELSE CHOOSE v \in {vs[i] : i \in 1..Len(vs)} : \A i \in 1..Len(vs) : v <= vs[i]
np_max(vs) ==
    IF \E i \in 1..Len(vs) : isna(vs[i]) THEN NaN
    ELSE CHOOSE v \in {vs[i] : i \in 1..Len(vs)} : \A i \in 1..Len(vs) : v >= vs[i]

\* np.std (population): NaN with a NaN row, infinite when the squares overflow
np_std(vs) ==
    IF \E i \in 1..Len(vs) : isna(vs[i]) THEN NaN
    ELSE IF ~Computable(vs) THEN Inf
    ELSE Sqrt(VarianceN2(vs)) \div Len(vs)

\* linregress(np.arange(n), values).slope
linregress_slope(vs) ==
    IF ~Computable(vs) THEN NaN
    ELSE LET n == Len(vs)
             Si == IntSum([i \in 1..n |-> i - 1])
             Sii == IntSum([i \in 1..n |-> (i - 1) * (i - 1)])
             Siv == IntSum([i \in 1..n |-> (i - 1) * vs[i]])
         IN (n * Siv - Si * IntSum(vs)) \div (n * Sii - Si * Si)

\* _compute_basic_features: five statistics for every window of >= 2 rows
_compute_basic_features(windows) ==
    LET tags == {tag \in DOMAIN windows : Len(windows[tag]) >= 2}
        names == {feature_name[tag][st] : tag \in tags, st \in {"mean", "std", "min", "max", "slope"}}
        value(tag, st) ==
            CASE st = "mean" -> Mean(windows[tag])
              [] st = "std" -> np_std(windows[tag])
              [] st = "min" -> np_min(windows[tag])
              [] st = "max" -> np_max(windows[tag])
              [] OTHER -> linregress_slope(windows[tag])
    IN [name \in names |->
           LET tag == CHOOSE t \in tags : \E st \in DOMAIN feature_name[t] : feature_name[t][st] = name
               st == CHOOSE x \in DOMAIN feature_name[tag] : feature_name[tag][x] = name
           IN value(tag, st)]

\* 1.013 * 0.9 * 22.4, times 10^5
GasDenominator == standard_pressure_bar * working_volume_l * 224

\* _compute_gas_balance_features with RQ = 0 instead of NaN when OUR <= 0
_compute_gas_balance_features_rq_zero(windows) ==
    LET F_in == series_mean(windows, "Gas_Flow_Inlet")
        F_out_read == series_mean(windows, "Gas_Flow_Outlet")
        y_CO2_out == series_mean(windows, "Off_Gas_CO2")
        y_O2_out == series_mean(windows, "Off_Gas_O2")
        P_reactor == series_mean(windows, "Reactor_Pressure")
        F_out == IF isna(F_out_read) THEN F_in ELSE F_out_read
        CER_num == F_in * y_CO2_out * P_reactor
        OUR_num == (F_in * 100 * air_o2_fraction - F_out * y_O2_out) * P_reactor
        rates == [CER |-> (600 * CER_num) \div GasDenominator,
                  CER_volumetric |-> (60 * CER_num) \div (standard_pressure_bar * working_volume_l),
                  OUR |-> (600 * OUR_num) \div GasDenominator,
                  OUR_volumetric |-> (60 * OUR_num) \div (standard_pressure_bar * working_volume_l)]
    IN IF \E x \in {F_in, y_CO2_out, y_O2_out, P_reactor} : isna(x) THEN <<>>
       ELSE Update(rates, [RQ |-> IF OUR_num > 0 THEN (100 * CER_num) \div OUR_num ELSE 0])

\* _compute_gas_balance_features, for finite means.  Flows, fractions (in %)
\* and pressure come in hundredths; CER and OUR are kept in 10^-4 mol/L/h,
\* the volumetric rates in 10^-4 L/L/h, RQ in hundredths.
_compute_gas_balance_features(windows) ==
    LET F_in == series_mean(windows, "Gas_Flow_Inlet")
        F_out_read == series_mean(windows, "Gas_Flow_Outlet")
        y_CO2_out == series_mean(windows, "Off_Gas_CO2")
        y_O2_out == series_mean(windows, "Off_Gas_O2")
        P_reactor == series_mean(windows, "Reactor_Pressure")
        F_out == IF isna(F_out_read) THEN F_in ELSE F_out_read
        CER_num == F_in * y_CO2_out * P_reactor
        OUR_num == (F_in * 100 * air_o2_fraction - F_out * y_O2_out) * P_reactor
        rates == [CER |-> (600 * CER_num) \div GasDenominator,
                  CER_volumetric |-> (60 * CER_num) \div (standard_pressure_bar * working_volume_l),
                  OUR |-> (600 * OUR_num) \div GasDenominator,
                  OUR_volumetric |-> (60 * OUR_num) \div (standard_pressure_bar * working_volume_l)]
    IN IF \E x \in {F_in, y_CO2_out, y_O2_out, P_reactor} : isna(x) THEN <<>>
       ELSE Update(rates, [RQ |-> IF OUR_num > 0 THEN (100 * CER_num) \div OUR_num ELSE NaN])

\* The last value of the Savitzky-Golay derivative of ln(OD), per hour, in
\* hundredths.  The window keeps OD to a hundredth and the derivative of its
\* logarithm is finer than that, so the value is an input of the cycle.
MuValues == {0 - 1, 2, 5, 8, 60}

\* _compute_growth_rate: nothing below 5 rows; a NaN among the last 5 rows
\* makes the edge fit, and with it mu, NaN
_compute_growth_rate(windows, deriv) ==
    LET od == IF "OD" \in DOMAIN windows THEN windows["OD"] ELSE <<>>
        n == Len(od)
    IN IF n < 5 THEN <<>>
       ELSE IF \E i \in 1..n : isna(od[i])
            THEN [mu |-> IF \E i \in (n - 4)..n : isna(od[i]) THEN NaN ELSE deriv,
                  mu_mean |-> NaN, mu_std |-> NaN]
       ELSE [mu |-> deriv, mu_mean |-> deriv, mu_std |-> 0]

\* _compute_specific_rates: DCW = 0.4 * OD_mean, published when DCW > 0.01
_compute_specific_rates(features) ==
    LET OUR == features["OUR"]
        od_mean == features["OD_mean"]
    IN IF "OUR" \notin DOMAIN features \/ "OD_mean" \notin DOMAIN features THEN <<>>
       ELSE IF ~FGt(FMulN(od_mean, 4), 10) THEN <<>>
       ELSE IF ~isfinite(od_mean)
            THEN Update([qO2 |-> 0], IF "CER" \in DOMAIN features THEN [qCO2 |-> 0] ELSE <<>>)
       ELSE Update([qO2 |-> (OUR * 250) \div od_mean],
                   IF "CER" \in DOMAIN features
                   THEN [qCO2 |-> (features["CER"] * 250) \div od_mean] ELSE <<>>)

\* _compute_kla: C* = 8 P / P_std, driving force C* (1 - DO / 100) > 0.1;
\* kLa = 32000 OUR / driving force, in 1/h
_compute_kla(features) ==
    LET OUR == features["OUR"]
        DO_percent == features["DO_mean"]
        P_milli == IF "Reactor_Pressure_mean" \in DOMAIN features
                   THEN FMulN(features["Reactor_Pressure_mean"], 10)
                   ELSE standard_pressure_bar
        force == 8 * P_milli * (10000 - DO_percent)
    IN IF "OUR" \notin DOMAIN features \/ "DO_mean" \notin DOMAIN features THEN <<>>
       ELSE IF ~isfinite(DO_percent) \/ ~isfinite(P_milli) THEN <<>>
       ELSE IF 10 * force > standard_pressure_bar * 10000
            THEN [kLa |-> (OUR * 32 * standard_pressure_bar) \div (force \div 1000)]
       ELSE <<>>

\* _compute_thermal_features as patched in at the end of the module: the
\* means are read from the windows by their canonical names
_compute_thermal_features(windows) ==
    LET T_broth == series_mean(windows, "Temp_Broth")
        T_exhaust == series_mean(windows, "Temp_Exhaust")
        T_ph == series_mean(windows, "Temp_pH_Probe")
        T_do == series_mean(windows, "Temp_DO_Probe")
        T_motor == series_mean(windows, "Temp_Stirrer_Motor")
        gradient == IF ~isna(T_broth) /\ ~isna(T_exhaust)
                    THEN [temp_gradient_broth_exhaust |-> FSub(T_broth, T_exhaust)] ELSE <<>>
        dev_ph == IF ~isna(T_broth) /\ ~isna(T_ph)
                  THEN [temp_deviation_ph_probe |-> FAbs(FSub(T_broth, T_ph))] ELSE <<>>
        dev_do == IF ~isna(T_broth) /\ ~isna(T_do)
                  THEN [temp_deviation_do_probe |-> FAbs(FSub(T_broth, T_do))] ELSE <<>>
        motor == IF ~isna(T_motor)
                 THEN [motor_temp |-> T_motor,
                       motor_temp_warning |-> IF T_motor > 6000 THEN 100 ELSE 0]
                 ELSE <<>>
    IN Update(Update(Update(gradient, dev_ph), dev_do), motor)

\* _compute_pressure_features as patched in; the deviation in thousandths
_compute_pressure_features(windows) ==
    LET P_reactor == series_mean(windows, "Reactor_Pressure")
        deviation == FSub(FMulN(P_reactor, 10), standard_pressure_bar)
    IN IF isna(P_reactor) THEN <<>>
       ELSE [pressure_deviation |-> deviation,
             pressure_anomaly |-> IF FAbs(deviation) > 100 THEN 100 ELSE 0]

\* _compute_process_state: mu < 0.02, mu >= 0.08, else
_compute_process_state(features) ==
    IF "mu" \notin DOMAIN features THEN <<>>
    ELSE IF FLt(features["mu"], 2)
         THEN [phase_lag |-> 100, phase_exp |-> 0, phase_stationary |-> 0]
    ELSE IF FGe(features["mu"], 8)
         THEN [phase_lag |-> 0, phase_exp |-> 100, phase_stationary |-> 0]
    ELSE [phase_lag |-> 0, phase_exp |-> 0, phase_stationary |-> 100]

\* rate * dt with dt = window_size_seconds / 3600, in 1/3600 of the rate's unit
times_dt(rate) == FMulN(rate, window_size_seconds)

\* the rates taken as they are, not multiplied by dt
cycle_rates_without_dt(features) ==
    [CER |-> Get(features, "CER", 0),
     OUR |-> Get(features, "OUR", 0),
     OD_mean |-> Get(features, "OD_mean", 0)]

\* the rates _compute_cumulative_features integrates: features.get(name, 0) * dt
cycle_rates(features) ==
    [CER |-> times_dt(Get(features, "CER", 0)),
     OUR |-> times_dt(Get(features, "OUR", 0)),
     OD_mean |-> times_dt(Get(features, "OD_mean", 0))]

\* _compute_cumulative_features: the history after the cycle, which is also
\* what the cycle emits
_compute_cumulative_features(features, hist) == integrate(hist, cycle_rates(features))

\* engineer_features: the nine groups in order, each updating the FeatureSet
engineer_features(windows, hist, deriv) ==
    LET f1 == _compute_basic_features(windows)
        f2 == Update(f1, _compute_gas_balance_features(windows))
        f3 == Update(f2, _compute_growth_rate(windows, deriv))
        f4 == Update(f3, _compute_specific_rates(f3))
        f5 == Update(f4, _compute_kla(f4))
        f6 == Update(f5, _compute_thermal_features(windows))
        f7 == Update(f6, _compute_pressure_features(windows))
        f8 == Update(f7, _compute_process_state(f7))
    IN Update(f8, _compute_cumulative_features(f8, hist))

\* ---- influx_client.py ---------------------------------------------------
\* What a query against the raw bucket can do: rows, no rows, or an error
\* (authentication failure, store unreachable, client closed).
ReadOutcomes == {"data", "absent", "error"}

\* get_sensor_window: rows are returned, everything else (no rows, or any
\* exception of the query) becomes an empty DataFrame
get_sensor_window(outcome) == IF outcome = "data" THEN "data" ELSE "empty"

\* write_features: the point is written; or the write fails inside the try
\* and is logged and swallowed; or client.write_api() / write_api.close(),
\* which are outside the try, raise.
WriteOutcomes == {"written", "swallowed", "raised"}

\* write_features, lines 114-121: one field per feature that passes pd.notna
write_features(features) ==
    [name \in {n \in DOMAIN features : ~isna(features[n])} |-> features[name]]

\* the measurement names process_window asks the gateway for
ALL_SENSOR_TAGS ==
    <<"pH", "DO", "OD", "Gas_MFC_air", "Stir_SP", "Stir_torque", "Weight",
      "Heater_PID_out", "Base_Pump_Rate", "broth", "ph_probe", "do_probe",
      "stirrer_motor", "exhaust", "headspace", "co2", "o2", "flow_in", "flow_out">>

\* the signal a measurement name carries (the comments of ALL_SENSOR_TAGS)
canonical_name(tag) ==
    CASE tag = "broth" -> "Temp_Broth"
      [] tag = "ph_probe" -> "Temp_pH_Probe"
      [] tag = "do_probe" -> "Temp_DO_Probe"
      [] tag = "stirrer_motor" -> "Temp_Stirrer_Motor"
      [] tag = "exhaust" -> "Temp_Exhaust"
      [] tag = "headspace" -> "Reactor_Pressure"
      [] tag = "co2" -> "Off_Gas_CO2"
      [] tag = "o2" -> "Off_Gas_O2"
      [] tag = "flow_in" -> "Gas_Flow_Inlet"
      [] tag = "flow_out" -> "Gas_Flow_Outlet"
      [] OTHER -> tag

\* ---- monitoring.py ------------------------------------------------------
\* check_quality_thresholds: the alerts it sends for the reports of a cycle
check_quality_thresholds(reports) ==
    UNION {
        (IF Get(reports[tag], "alarm", "None") # "None"
         THEN {[level |-> "error", category |-> "data_quality", about |-> tag]} ELSE {})
        \cup
        (IF Get(reports[tag], "missing_count", 0) > 15
         THEN {[level |-> "warning", category |-> "missing_data", about |-> tag]} ELSE {})
        \cup
        (IF Get(reports[tag], "invalid_values", 0) > 0
         THEN {[level |-> "critical", category |-> "sensor_failure", about |-> tag]} ELSE {})
        : tag \in DOMAIN reports }

\* check_feature_thresholds: mu < 0 or mu > 0.5, RQ outside [0.5, 1.5],
\* motor_temp > 70
check_feature_thresholds(features) ==
    (IF "mu" \in DOMAIN features /\ (FLt(features["mu"], 0) \/ FGt(features["mu"], 50))
     THEN {[level |-> "warning", category |-> "process_anomaly", about |-> "mu"]} ELSE {})
    \cup
    (IF "RQ" \in DOMAIN features /\ (FLt(features["RQ"], 50) \/ FGt(features["RQ"], 150))
     THEN {[level |-> "info", category |-> "metabolic_shift", about |-> "RQ"]} ELSE {})
    \cup
    (IF "motor_temp" \in DOMAIN features /\ FGt(features["motor_temp"], 7000)
     THEN {[level |-> "warning", category |-> "equipment_warning", about |-> "motor_temp"]}
     ELSE {})

\* ---- pipeline.py --------------------------------------------------------
CyclePcs == {"fetch", "clean", "engineer", "write"}

InFlight == Cardinality({t \in Threads : pc[t] \in CyclePcs})

\* cap of cycle_count: a cycle begins only if it can still be counted
CycleBudget == cycle_count + InFlight < MaxCycles

\* process_window whose except clause lets a failure of the write stage through
except_result_leaks_write(stage) == IF stage = "write" THEN "raised" ELSE "None"

\* process_window, lines 77-79: every Exception of a stage is logged and
\* turned into the failure indicator None
except_result(stage) == "None"

\* run_continuous that leaves the loop when a cycle failed
after_cycle_pc_breaks(res) == IF res = "None" THEN "exited" ELSE "sleep"

\* run_continuous, lines 111-122: whatever process_window returned the worker
\* sleeps the interval; an exception of the iteration is caught and followed
\* by the 5 s pause
after_cycle_pc(res) == IF res = "raised" THEN "except_sleep" ELSE "sleep"

\* stop() that leaves the flag set
stop_is_running_kept == TRUE

\* stop, line 127: self.is_running = False
stop_is_running == FALSE

\* where a thread goes when its process_window call is over
CycleEnd(t, res) == IF t = LoopThread THEN "respond" ELSE after_cycle_pc(res)

\* DataPipeline.reset_batch on the three pieces of batch state
reset_batch(st) ==
    [stats |-> reset_stats(st.stats), hist |-> reset_history(st.hist), cycles |-> 0]

BatchState == [stats |-> quality_stats, hist |-> history, cycles |-> cycle_count]

\* ---- the lab application: batch records ----------------------------------
MaxBatches == 2
MaxRequests == 2
MaxSamples == 9
MaxCalibrations == 1
MaxFailures == 1

BatchIds == 1..MaxBatches

\* a batch_id under which no Batch row was ever stored
NoBatch == [status |-> "none", batch_number |-> 0, phase |-> "", vessel_id |-> "",
            media |-> FALSE, calibrations |-> 0, failed |-> FALSE, inoculation |-> FALSE,
            samples |-> 0, unreviewed |-> 0, closure |-> FALSE]

NoInput == [batch_number |-> 0, phase |-> "", vessel_id |-> ""]
NoRequest == [op |-> "none", batch_id |-> 0, batch_in |-> NoInput, flag |-> FALSE]

\* create_all on an empty database, no request being served
NoRequests ==
    /\ db = [b \in BatchIds |-> NoBatch]
    /\ requests = [r \in (1..MaxRequests) |-> NoRequest]
    /\ response = [op |-> "none", code |-> 0]

\* no cycle is being followed
NoData ==
    /\ step = "idle"
    /\ sensor_windows = <<>>
    /\ cleaned_windows = <<>>
    /\ quality_reports = <<>>
    /\ feature_set = <<>>
    /\ lines = <<>>
    /\ alerts = {}
    /\ loaded = [t \in Threads |-> [key |-> "none", value |-> 0]]
    /\ NoRequests

\* DataPipeline.__init__ and module load of main.py, after lifespan start-up
Init ==
    /\ pc = [t \in Threads |-> IF t = LoopThread THEN "idle" ELSE "none"]
    /\ is_running = FALSE
    /\ cycle_count = 0
    /\ quality_stats = InitialStats
    /\ history = EmptyHistory
    /\ influx_closed = FALSE
    /\ stop_requested = FALSE
    /\ http_status = 0
    /\ raw_windows = [t \in Threads |-> "none"]
    /\ read_error = [t \in Threads |-> FALSE]
    /\ wrote = [t \in Threads |-> FALSE]
    /\ result = [t \in Threads |-> "none"]
    /\ NoData

locals == <<raw_windows, read_error, wrote, result>>

ClearLocals(t) ==
    /\ raw_windows' = [raw_windows EXCEPT ![t] = "none"]
    /\ read_error' = [read_error EXCEPT ![t] = FALSE]
    /\ wrote' = [wrote EXCEPT ![t] = FALSE]
    /\ result' = [result EXCEPT ![t] = "none"]

\* ---- process_window, one stage per step ---------------------------------
\* a stage raised: the except clause ends the cycle
Fail(t, stage) ==
    /\ result' = [result EXCEPT ![t] = except_result(stage)]
    /\ pc' = [pc EXCEPT ![t] = CycleEnd(t, except_result(stage))]
    /\ raw_windows' = [raw_windows EXCEPT ![t] = "none"]
    /\ read_error' = [read_error EXCEPT ![t] = FALSE]

\* 1. get_all_sensor_windows: never raises, a failed query reads as empty
pw_fetch(t, env) ==
    /\ pc[t] = "fetch"
    /\ UNCHANGED data
    /\ \E outcome \in env.reads :
          /\ raw_windows' = [raw_windows EXCEPT ![t] = get_sensor_window(outcome)]
          /\ read_error' = [read_error EXCEPT ![t] = (outcome = "error")]
    /\ pc' = [pc EXCEPT ![t] = "clean"]
    /\ UNCHANGED <<shared, http_status, wrote, result>>

\* 2. clean_window for the fetched windows: an empty window leaves the
\* counters alone, any other adds its report; the stage may raise
pw_clean(t, env) ==
    /\ pc[t] = "clean"
    /\ UNCHANGED data
    /\ \E report \in env.reports, raises \in BOOLEAN :
          /\ quality_stats' = IF raw_windows[t] = "empty" THEN quality_stats
                              ELSE update_stats(quality_stats, report)
          /\ StatsWithinBound(quality_stats')
          /\ IF raises
             THEN Fail(t, "clean")
             ELSE /\ pc' = [pc EXCEPT ![t] = "engineer"]
                  /\ UNCHANGED <<raw_windows, read_error, result>>
    /\ UNCHANGED <<is_running, cycle_count, history, influx_closed, stop_requested,
                   http_status, wrote>>

\* 3. engineer_features: integrates the cycle's rates into the history (no
\* rates from empty windows); _compute_basic_features may raise
pw_engineer(t, env) ==
    /\ pc[t] = "engineer"
    /\ UNCHANGED data
    /\ \/ /\ \E rates \in env.rates :
                /\ raw_windows[t] = "empty" => rates = ZeroRates
                /\ history' = integrate(history, rates)
          /\ HistWithinBound(history')
          /\ pc' = [pc EXCEPT ![t] = "write"]
          /\ raw_windows' = [raw_windows EXCEPT ![t] = "none"]
          /\ UNCHANGED <<read_error, result>>
       \/ /\ Fail(t, "engineer")
          /\ UNCHANGED history
    /\ UNCHANGED <<is_running, cycle_count, quality_stats, influx_closed, stop_requested,
                   http_status, wrote>>

\* 4. write_features, then cycle_count += 1 and return features
pw_write(t, env) ==
    /\ pc[t] = "write"
    /\ UNCHANGED data
    /\ \E outcome \in env.writes :
          IF outcome = "raised"
          THEN /\ Fail(t, "write")
               /\ UNCHANGED <<cycle_count, wrote>>
          ELSE /\ wrote' = [wrote EXCEPT ![t] = (outcome = "written")]
               /\ cycle_count' = cycle_count + 1
               /\ result' = [result EXCEPT ![t] = "features"]
               /\ pc' = [pc EXCEPT ![t] = CycleEnd(t, "features")]
               /\ raw_windows' = [raw_windows EXCEPT ![t] = "none"]
               /\ read_error' = [read_error EXCEPT ![t] = FALSE]
    /\ UNCHANGED <<is_running, quality_stats, history, influx_closed, stop_requested,
                   http_status>>

process_window(t, env) ==
    pw_fetch(t, env) \/ pw_clean(t, env) \/ pw_engineer(t, env) \/ pw_write(t, env)

\* ---- run_continuous -----------------------------------------------------
\* line 108: while self.is_running
run_continuous_check(w) ==
    /\ pc[w] = "check"
    /\ UNCHANGED data
    /\ IF is_running
       THEN /\ CycleBudget
            /\ pc' = [pc EXCEPT ![w] = "fetch"]
       ELSE pc' = [pc EXCEPT ![w] = "exited"]
    /\ UNCHANGED <<shared, http_status, locals>>

\* line 114: time.sleep(interval) returns, or raises into the except clause
run_continuous_sleep(w) ==
    /\ pc[w] = "sleep"
    /\ UNCHANGED data
    /\ \E to \in {"check", "except_sleep"} : pc' = [pc EXCEPT ![w] = to]
    /\ ClearLocals(w)
    /\ UNCHANGED <<shared, http_status>>

\* lines 120-122: log, time.sleep(5), next iteration
run_continuous_except(w) ==
    /\ pc[w] = "except_sleep"
    /\ UNCHANGED data
    /\ pc' = [pc EXCEPT ![w] = "check"]
    /\ ClearLocals(w)
    /\ UNCHANGED <<shared, http_status>>

run_continuous(w, env) ==
    \/ run_continuous_check(w)
    \/ process_window(w, env)
    \/ run_continuous_sleep(w)
    \/ run_continuous_except(w)

\* ---- main.py ------------------------------------------------------------
\* POST /start
start_pipeline ==
    /\ pc[LoopThread] = "idle"
    /\ UNCHANGED data
    /\ http_status' = 200
    /\ IF is_running
       THEN UNCHANGED <<pc, stop_requested>>
       ELSE /\ \E w \in Workers :
                  /\ pc[w] = "none"
                  /\ pc' = [pc EXCEPT ![w] = "task"]
            /\ stop_requested' = FALSE
    /\ UNCHANGED <<is_running, cycle_count, quality_stats, history, influx_closed, locals>>

\* run_pipeline_async: the event loop runs the task, which hands
\* run_continuous to an executor thread; its first statement (pipeline.py
\* line 103) sets self.is_running = True
run_pipeline_async(w) ==
    /\ pc[LoopThread] = "idle"
    /\ UNCHANGED data
    /\ pc[w] = "task"
    /\ is_running' = TRUE
    /\ pc' = [pc EXCEPT ![w] = "check"]
    /\ UNCHANGED <<cycle_count, quality_stats, history, influx_closed, stop_requested,
                   http_status, locals>>

\* POST /stop; DataPipeline.stop sets the flag and closes the gateway
stop_pipeline ==
    /\ pc[LoopThread] = "idle"
    /\ UNCHANGED data
    /\ http_status' = 200
    /\ IF ~is_running
       THEN UNCHANGED <<is_running, influx_closed, stop_requested>>
       ELSE /\ is_running' = stop_is_running
            /\ influx_closed' = TRUE
            /\ stop_requested' = TRUE
    /\ UNCHANGED <<pc, cycle_count, quality_stats, history, locals>>

\* POST /process-window: process_window runs on the event loop thread
process_single_window_call ==
    /\ pc[LoopThread] = "idle"
    /\ UNCHANGED data
    /\ CycleBudget
    /\ pc' = [pc EXCEPT ![LoopThread] = "fetch"]
    /\ http_status' = 0
    /\ ClearLocals(LoopThread)
    /\ UNCHANGED shared

\* POST /process-window, lines 164-171: None becomes HTTP 500
process_single_window_respond ==
    /\ pc[LoopThread] = "respond"
    /\ UNCHANGED data
    /\ http_status' = IF result[LoopThread] = "features" THEN 200 ELSE 500
    /\ pc' = [pc EXCEPT ![LoopThread] = "idle"]
    /\ ClearLocals(LoopThread)
    /\ UNCHANGED shared

\* POST /reset
reset_pipeline ==
    /\ pc[LoopThread] = "idle"
    /\ UNCHANGED data
    /\ http_status' = 200
    /\ quality_stats' = reset_batch(BatchState).stats
    /\ history' = reset_batch(BatchState).hist
    /\ cycle_count' = reset_batch(BatchState).cycles
    /\ UNCHANGED <<pc, is_running, influx_closed, stop_requested, locals>>

\* ---- process_window, value by value -------------------------------------
\* The same four stages on one thread, with the windows, the reports and the
\* FeatureSet of the cycle written out.

\* the counters after the clean_window calls of a cycle
RECURSIVE stats_after_all(_, _, _)
stats_after_all(stats, reports, tags) ==
    IF tags = {} THEN stats
    ELSE LET tag == CHOOSE x \in tags : TRUE
         IN stats_after_all(stats_after(stats, reports[tag]), reports, tags \ {tag})

\* cycles are followed while the counters of the batch are below the cap: a
\* cycle whose write fails advances the statistics and the sums but not
\* cycle_count
DataBudget ==
    /\ cycle_count < MaxCycles
    /\ \A k \in StatKeys : quality_stats[k] < MaxCycles
    /\ \A k \in DOMAIN history : isna(history[k]) \/ Abs(history[k]) < MaxCycles * times_dt(300)

\* 1. get_all_sensor_windows
cycle_fetch(frames) ==
    /\ step = "idle"
    /\ DataBudget
    /\ sensor_windows' \in frames
    /\ step' = "clean"
    /\ cleaned_windows' = <<>>
    /\ quality_reports' = <<>>
    /\ feature_set' = <<>>
    /\ lines' = <<>>
    /\ result' = [result EXCEPT ![LoopThread] = "none"]
    /\ UNCHANGED <<pc, shared, http_status, raw_windows, read_error, wrote, alerts, loaded, db, requests, response>>

\* 2. clean_window for every tag, _log_quality_issues (log lines only)
cycle_clean ==
    /\ step = "clean"
    /\ \E outcome \in KalmanOutcomes :
          LET cleaned == [tag \in DOMAIN sensor_windows |->
                              clean_window(sensor_windows[tag], tag, outcome)]
          IN /\ cleaned_windows' = [tag \in DOMAIN sensor_windows |-> cleaned[tag].values]
             /\ quality_reports' = [tag \in DOMAIN sensor_windows |-> cleaned[tag].report]
             /\ quality_stats' = stats_after_all(quality_stats, quality_reports',
                                                 DOMAIN sensor_windows)
    /\ step' = "engineer"
    /\ UNCHANGED <<pc, is_running, cycle_count, history, influx_closed, stop_requested,
                   http_status, locals, sensor_windows, feature_set, lines, alerts, loaded, db, requests, response>>

\* 3. engineer_features; the cumulative sums it emits are the new history
cycle_engineer ==
    /\ step = "engineer"
    /\ \E deriv \in MuValues :
          feature_set' = engineer_features(cleaned_windows, history, deriv)
    /\ history' = [k \in CumKeys |-> feature_set'[k]]
    /\ step' = "write"
    /\ UNCHANGED <<pc, is_running, cycle_count, quality_stats, influx_closed,
                   stop_requested, http_status, locals, sensor_windows, cleaned_windows,
                   quality_reports, lines, alerts, loaded, db, requests, response>>

\* 4. write_features, cycle_count += 1, return features; or the except clause
cycle_write ==
    /\ step = "write"
    /\ \E outcome \in WriteOutcomes :
          /\ lines' = IF outcome = "written" THEN write_features(feature_set) ELSE <<>>
          /\ IF outcome = "raised"
             THEN /\ result' = [result EXCEPT ![LoopThread] = except_result("write")]
                  /\ UNCHANGED cycle_count
             ELSE /\ result' = [result EXCEPT ![LoopThread] = "features"]
                  /\ cycle_count' = cycle_count + 1
    /\ step' = "idle"
    /\ UNCHANGED <<pc, is_running, quality_stats, history, influx_closed, stop_requested,
                   http_status, raw_windows, read_error, wrote, sensor_windows,
                   cleaned_windows, quality_reports, feature_set, alerts, loaded, db, requests, response>>

\* what the store and the sensors may do to a cycle
World == [reads |-> ReadOutcomes, reports |-> QualityReports,
          rates |-> RateInputs, writes |-> WriteOutcomes]

Next ==
    \/ start_pipeline
    \/ stop_pipeline
    \/ reset_pipeline
    \/ process_single_window_call
    \/ process_window(LoopThread, World)
    \/ process_single_window_respond
    \/ \E w \in Workers : run_pipeline_async(w)
    \/ \E w \in Workers : run_continuous(w, World)

Spec == Init /\ [][Next]_vars

\* ---- the control flow alone ------------------------------------------------
\* The same program in a world whose windows are clean and whose rates are
\* zero: queries and writes fail as in World, the figures of a cycle, which
\* steer neither the loop nor the handlers, stay at rest.
ControlWorld == [reads |-> ReadOutcomes,
                 reports |-> {r \in QualityReports : r.missing_count = 0},
                 rates |-> {ZeroRates},
                 writes |-> WriteOutcomes]

ControlNext ==
    \/ start_pipeline
    \/ stop_pipeline
    \/ reset_pipeline
    \/ process_single_window_call
    \/ process_window(LoopThread, ControlWorld)
    \/ process_single_window_respond
    \/ \E w \in Workers : run_pipeline_async(w)
    \/ \E w \in Workers : run_continuous(w, ControlWorld)

ControlSpec == Init /\ [][ControlNext]_vars

\* ---- the worker loop under fair scheduling -------------------------------
\* The workers and the requests that reach them through is_running and the
\* batch state (start, stop, reset).  A worker is an executor thread of its
\* own: the scheduler lets it take its next step, and its sleeps are finite.
\* Nothing is assumed of the requests.
LoopNext ==
    \/ start_pipeline
    \/ stop_pipeline
    \/ reset_pipeline
    \/ \E w \in Workers : run_pipeline_async(w)
    \/ \E w \in Workers : run_continuous(w, ControlWorld)

FairSpec ==
    /\ Init
    /\ [][LoopNext]_vars
    /\ \A w \in Workers : WF_vars(run_continuous(w, ControlWorld))

\* ---- reset_batch as a function of the batch state -----------------------
\* Any batch state the cleaner and the engineer can have built up, then resets.
ResetInit ==
    /\ pc = [t \in Threads |-> IF t = LoopThread THEN "idle" ELSE "none"]
    /\ is_running = FALSE
    /\ cycle_count \in 0..MaxCycles
    /\ quality_stats \in {st \in [StatKeys -> 0..MaxStat] :
            st["interpolated_count"] + st["kalman_filtered_count"] <= st["missing_count"]}
    /\ history \in {EmptyHistory} \cup [CumKeys -> 0..MaxHist]
    /\ influx_closed = FALSE
    /\ stop_requested = FALSE
    /\ http_status = 0
    /\ raw_windows = [t \in Threads |-> "none"]
    /\ read_error = [t \in Threads |-> FALSE]
    /\ wrote = [t \in Threads |-> FALSE]
    /\ result = [t \in Threads |-> "none"]
    /\ NoData

ResetNext == reset_pipeline

ResetSpec == ResetInit /\ [][ResetNext]_vars

\* ---- clean_window as a function of the window ---------------------------
\* rows at a fixed period, as the gateway returned them (in time order or in
\* reverse)
Frame(vs, period, order) ==
    [i \in 1..Len(vs) |->
        [time |-> (IF order = "asc" THEN i - 1 ELSE Len(vs) - i) * period, value |-> vs[i]]]

\* pH samples: missing, plausible, above the interval, below the interval
Samples == {NaN, 700, 1200, 50}

ShortWindows == UNION {[1..n -> Samples] : n \in 1..MaxLen}

\* a constant level with one sample off it
LongWindows ==
    {[i \in 1..LongLen |-> IF i = LongLen THEN d ELSE 700] : d \in {700, 900, 1020, 1200, 50, NaN}}

\* seconds between rows: the 1 Hz stream, and series whose gaps reach the
\* smoother and the failure thresholds
Periods == {1, 400, 2400}

\* a tag with bounds under its own name, and one known by an alias only
CleanTags == {"pH", "stirrer_motor"}

CleanFrames ==
    {(tag :> Frame(vs, period, order)) :
        tag \in CleanTags, vs \in ShortWindows \cup LongWindows,
        period \in Periods, order \in {"asc", "desc"}}

CleanInit ==
    /\ pc = [t \in Threads |-> IF t = LoopThread THEN "idle" ELSE "none"]
    /\ is_running = FALSE
    /\ cycle_count = 0
    /\ quality_stats = InitialStats
    /\ history = EmptyHistory
    /\ influx_closed = FALSE
    /\ stop_requested = FALSE
    /\ http_status = 0
    /\ raw_windows = [t \in Threads |-> "none"]
    /\ read_error = [t \in Threads |-> FALSE]
    /\ wrote = [t \in Threads |-> FALSE]
    /\ result = [t \in Threads |-> "none"]
    /\ step = "clean"
    /\ sensor_windows \in CleanFrames
    /\ cleaned_windows = <<>>
    /\ quality_reports = <<>>
    /\ feature_set = <<>>
    /\ lines = <<>>
    /\ alerts = {}
    /\ loaded = [t \in Threads |-> [key |-> "none", value |-> 0]]
    /\ NoRequests

CleanNext == cycle_clean

CleanSpec == CleanInit /\ [][CleanNext]_vars

\* ---- the cycles of a batch, value by value ------------------------------
\* OD windows at 1 Hz: no rows, a steady culture, one sample below the
\* physical minimum of 0
ODWindows == {<<>>, <<200, 200, 200, 200, 200>>, <<200, 200, 200, 200, 0 - 100>>}

\* motor temperature windows, under the measurement name stirrer_motor: no
\* rows, 80 degrees, 120 degrees, and a sensor stuck at the largest float
MotorWindows == {<<>>, <<8000, 8000>>, <<12000, 12000>>, <<FloatMax, FloatMax>>}

TagSet == {ALL_SENSOR_TAGS[i] : i \in 1..Len(ALL_SENSOR_TAGS)}

\* get_all_sensor_windows: one DataFrame per tag of ALL_SENSOR_TAGS
DataWindows ==
    {[tag \in TagSet |->
         CASE tag = "OD" -> Frame(od, 1, "asc")
           [] tag = "stirrer_motor" -> Frame(motor, 1, "asc")
           [] OTHER -> <<>>] : od \in ODWindows, motor \in MotorWindows}

\* cycles and resets one after the other (the reset endpoint called between
\* cycles)
DataNext ==
    \/ cycle_fetch(DataWindows)
    \/ cycle_clean
    \/ cycle_engineer
    \/ cycle_write
    \/ (step = "idle" /\ reset_pipeline)

DataSpec == Init /\ [][DataNext]_vars

\* ---- engineer_features as a function of the cleaned windows -------------
\* off-gas windows under the names the engineer reads: none; 1 L/min in, 2 %
\* CO2, 1.01 bar and 20 %, 21 % or 22 % O2 out (OUR above, at and below 0)
GasWindows ==
    {<<>>} \cup
    {[Gas_Flow_Inlet |-> <<100, 100>>, Off_Gas_CO2 |-> <<200, 200>>,
      Off_Gas_O2 |-> <<o2, o2>>, Reactor_Pressure |-> <<101, 101>>] : o2 \in {2000, 2100, 2200}}

\* cleaned OD windows: too short for a growth rate, steady, and with a sample
\* the bounds stage has set to NaN
CleanedODWindows == {<<>>, <<200, 200, 200, 200, 200>>, <<200, 200, 200, 200, NaN>>}

\* each off-gas case without OD rows, each OD case without off-gas rows, and
\* a steady culture with all the signals
EngineerWindows ==
    {gas @@ [OD |-> <<>>] : gas \in GasWindows}
        \cup {[OD |-> od] : od \in CleanedODWindows}
        \cup {gas @@ [OD |-> <<200, 200, 200, 200, 200>>] : gas \in GasWindows \ {<<>>}}

\* a caller hands engineer_features a set of cleaned windows
engineer_call(windows) ==
    /\ step = "idle"
    /\ DataBudget
    /\ cleaned_windows' \in windows
    /\ step' = "engineer"
    /\ feature_set' = <<>>
    /\ lines' = <<>>
    /\ result' = [result EXCEPT ![LoopThread] = "none"]
    /\ UNCHANGED <<pc, shared, http_status, raw_windows, read_error, wrote,
                   sensor_windows, quality_reports, alerts, loaded, db, requests, response>>

EngineerNext ==
    \/ engineer_call(EngineerWindows)
    \/ cycle_engineer
    \/ cycle_write
    \/ (step = "idle" /\ reset_pipeline)

EngineerSpec == Init /\ [][EngineerNext]_vars

\* ---- overlapping cycles, the counters statement by statement -----------
\* clean_window, lines 78-80: self.quality_stats[k] += quality_report.get(..., 0)
\* reads the counter, calls get, adds and stores.  Another thread can run
\* between the read and the store; the counter followed is any one of the three.
\* quality_report.get(...) of the three statements
report_amount(report, k) ==
    CASE k = "missing_count" -> report.missing_count
      [] k = "outlier_count" -> report.outliers_detected
      [] OTHER -> report.invalid_values

followed == <<step, sensor_windows, cleaned_windows, quality_reports, feature_set, lines, alerts,
             db, requests, response>>

\* the read of a counter (BINARY_SUBSCR of the "+=")
clean_load(t) ==
    /\ pc[t] = "clean"
    /\ raw_windows[t] # "empty"
    /\ loaded[t].key = "none"
    /\ \E k \in {"missing_count", "outlier_count", "invalid_count"} :
          loaded' = [loaded EXCEPT ![t] = [key |-> k, value |-> quality_stats[k]]]
    /\ UNCHANGED <<pc, shared, http_status, locals, followed>>

\* the store of that counter (STORE_SUBSCR) with the rest of the clean stage;
\* an empty window returns before the counters are touched
clean_store(t, env) ==
    /\ pc[t] = "clean"
    /\ raw_windows[t] = "empty" \/ loaded[t].key # "none"
    /\ \E report \in env.reports, raises \in BOOLEAN :
          /\ quality_stats' =
                IF raw_windows[t] = "empty" THEN quality_stats
                ELSE [k \in StatKeys |->
                         IF k = loaded[t].key
                         THEN loaded[t].value + report_amount(report, k)
                         ELSE update_stats(quality_stats, report)[k]]
          /\ StatsWithinBound(quality_stats')
          /\ IF raises
             THEN Fail(t, "clean")
             ELSE /\ pc' = [pc EXCEPT ![t] = "engineer"]
                  /\ UNCHANGED <<raw_windows, read_error, result>>
    /\ loaded' = [loaded EXCEPT ![t] = [key |-> "none", value |-> 0]]
    /\ UNCHANGED <<is_running, cycle_count, history, influx_closed, stop_requested,
                   http_status, wrote, followed>>

\* process_window with the clean stage in its two halves
process_window_by_statement(t, env) ==
    \/ pw_fetch(t, env)
    \/ clean_load(t)
    \/ clean_store(t, env)
    \/ pw_engineer(t, env)
    \/ pw_write(t, env)

\* windows with and without missing samples, zero rates
OverlapWorld == [reads |-> ReadOutcomes, reports |-> QualityReports,
                 rates |-> {ZeroRates}, writes |-> WriteOutcomes]

\* a worker and one-shot requests, no stop and no reset
OverlapNext ==
    \/ start_pipeline
    \/ process_single_window_call
    \/ process_window_by_statement(LoopThread, OverlapWorld)
    \/ process_single_window_respond
    \/ \E w \in Workers : run_pipeline_async(w)
    \/ \E w \in Workers : run_continuous_check(w)
    \/ \E w \in Workers : process_window_by_statement(w, OverlapWorld)
    \/ \E w \in Workers : run_continuous_sleep(w)
    \/ \E w \in Workers : run_continuous_except(w)

OverlapSpec == Init /\ [][OverlapNext]_vars

\* ---- the lab application: request handlers ------------------------------
\* Every handler awaits its queries and then its commit, each request on a
\* session of its own: the queries of one request and the commit of another
\* interleave.  A handler is followed from its first query (first disjunct)
\* to its commit (second disjunct); requests have passed authentication.
pipeline == <<pc, shared, http_status, locals, step, sensor_windows, cleaned_windows,
              quality_reports, feature_set, lines, alerts, loaded>>

\* select(Batch).where(Batch.batch_id == batch_id) finds a row
found(b) == db[b].status \notin {"none", "deleted"}

\* the request is new: it takes the first session that serves none
arrives(r) ==
    /\ requests[r] = NoRequest
    /\ \A q \in (1..MaxRequests) : q < r => requests[q] # NoRequest

in_flight(op, b) == Cardinality({r \in (1..MaxRequests) : requests[r].op = op /\ requests[r].batch_id = b})

\* raise HTTPException(status_code=code) before anything is added
raise_http(op, code) ==
    /\ response' = [op |-> op, code |-> code]
    /\ UNCHANGED <<db, requests>>

\* the queries passed; the handler is at "await db.commit()"
await_commit(r, op, b, batch_in, flag) ==
    /\ requests' = [requests EXCEPT ![r] = [op |-> op, batch_id |-> b, batch_in |-> batch_in, flag |-> flag]]
    /\ UNCHANGED <<db, response>>

\* db.commit() and the response; an IntegrityError is answered 409 by
\* integrity_exception_handler and stores nothing
commit(r, op, code, rows) ==
    /\ db' = rows
    /\ requests' = [requests EXCEPT ![r] = NoRequest]
    /\ response' = [op |-> op, code |-> code]

\* the rows the two queries of create_batch return
same_number(batch_in) ==
    {b \in BatchIds : found(b) /\ db[b].batch_number = batch_in.batch_number
                               /\ db[b].phase = batch_in.phase}
active_on(vessel_id) ==
    {b \in BatchIds : db[b].vessel_id = vessel_id /\ db[b].status \in {"pending", "running"}}

\* POST /batches
create_batch(r, batch_in) ==
    \/ /\ arrives(r)
       /\ IF Cardinality(same_number(batch_in)) > 1 \/ Cardinality(active_on(batch_in.vessel_id)) > 1
          THEN raise_http("create_batch", 500)
          ELSE IF same_number(batch_in) # {} \/ active_on(batch_in.vessel_id) # {}
          THEN raise_http("create_batch", 409)
          ELSE /\ Cardinality({b \in BatchIds : db[b] # NoBatch}) + in_flight("create_batch", 0) < MaxBatches
               /\ await_commit(r, "create_batch", 0, batch_in, FALSE)
       /\ UNCHANGED pipeline
    \/ /\ requests[r] = [op |-> "create_batch", batch_id |-> 0, batch_in |-> batch_in, flag |-> FALSE]
       /\ IF same_number(batch_in) # {}
          THEN commit(r, "create_batch", 409, db)
          ELSE LET b == CHOOSE n \in BatchIds : db[n] = NoBatch /\ \A m \in BatchIds : m < n => db[m] # NoBatch
               IN  commit(r, "create_batch", 201,
                          [db EXCEPT ![b] = [NoBatch EXCEPT !.status = "pending",
                                                            !.batch_number = batch_in.batch_number,
                                                            !.phase = batch_in.phase,
                                                            !.vessel_id = batch_in.vessel_id]])
       /\ UNCHANGED pipeline

\* DELETE /batches/{batch_id}; the children go with the row (ondelete CASCADE)
delete_batch(r, b) ==
    \/ /\ arrives(r)
       /\ IF ~found(b) THEN raise_http("delete_batch", 404)
          ELSE IF db[b].status = "complete" THEN raise_http("delete_batch", 403)
          ELSE await_commit(r, "delete_batch", b, NoInput, FALSE)
       /\ UNCHANGED pipeline
    \/ /\ requests[r] = [op |-> "delete_batch", batch_id |-> b, batch_in |-> NoInput, flag |-> FALSE]
       /\ IF ~found(b)
          THEN commit(r, "delete_batch", 500, db)
          ELSE commit(r, "delete_batch", 204, [db EXCEPT ![b] = [NoBatch EXCEPT !.status = "deleted"]])
       /\ UNCHANGED pipeline

\* POST /batches/{batch_id}/media
create_media_preparation(r, b) ==
    \/ /\ arrives(r)
       /\ IF ~found(b) THEN raise_http("create_media_preparation", 404)
          ELSE IF db[b].media THEN raise_http("create_media_preparation", 409)
          ELSE await_commit(r, "create_media_preparation", b, NoInput, FALSE)
       /\ UNCHANGED pipeline
    \/ /\ requests[r] = [op |-> "create_media_preparation", batch_id |-> b, batch_in |-> NoInput, flag |-> FALSE]
       /\ IF ~found(b) \/ db[b].media
          THEN commit(r, "create_media_preparation", 409, db)
          ELSE commit(r, "create_media_preparation", 201, [db EXCEPT ![b].media = TRUE])
       /\ UNCHANGED pipeline

\* POST /batches/{batch_id}/calibrations, pass_ the verdict of the calibration
create_calibration(r, b, pass_) ==
    \/ /\ arrives(r)
       /\ db[b].calibrations + in_flight("create_calibration", b) < MaxCalibrations
       /\ IF ~found(b) THEN raise_http("create_calibration", 404)
          ELSE IF db[b].status # "pending" THEN raise_http("create_calibration", 422)
          ELSE await_commit(r, "create_calibration", b, NoInput, pass_)
       /\ UNCHANGED pipeline
    \/ /\ requests[r] = [op |-> "create_calibration", batch_id |-> b, batch_in |-> NoInput, flag |-> pass_]
       /\ IF ~found(b)
          THEN commit(r, "create_calibration", 409, db)
          ELSE commit(r, "create_calibration", 201,
                      [db EXCEPT ![b].calibrations = @ + 1, ![b].failed = @ \/ ~pass_])
       /\ UNCHANGED pipeline

\* POST /batches/{batch_id}/inoculation; the insert trigger of the database
\* sets the batch running
create_inoculation(r, b, go_decision) ==
    \/ /\ arrives(r)
       /\ IF ~found(b) THEN raise_http("create_inoculation", 404)
          ELSE IF ~db[b].media \/ db[b].failed \/ ~go_decision
          THEN raise_http("create_inoculation", 422)
          ELSE await_commit(r, "create_inoculation", b, NoInput, go_decision)
       /\ UNCHANGED pipeline
    \/ /\ requests[r] = [op |-> "create_inoculation", batch_id |-> b, batch_in |-> NoInput, flag |-> go_decision]
       /\ IF ~found(b) \/ db[b].inoculation
          THEN commit(r, "create_inoculation", 409, db)
          ELSE commit(r, "create_inoculation", 201,
                      [db EXCEPT ![b].inoculation = TRUE, ![b].status = "running"])
       /\ UNCHANGED pipeline

\* POST /batches/{batch_id}/samples
create_sample(r, b) ==
    \/ /\ arrives(r)
       /\ db[b].samples + in_flight("create_sample", b) < MaxSamples
       /\ IF ~found(b) THEN raise_http("create_sample", 404)
          ELSE IF db[b].status # "running" THEN raise_http("create_sample", 422)
          ELSE await_commit(r, "create_sample", b, NoInput, FALSE)
       /\ UNCHANGED pipeline
    \/ /\ requests[r] = [op |-> "create_sample", batch_id |-> b, batch_in |-> NoInput, flag |-> FALSE]
       /\ IF ~found(b)
          THEN commit(r, "create_sample", 409, db)
          ELSE commit(r, "create_sample", 201, [db EXCEPT ![b].samples = @ + 1])
       /\ UNCHANGED pipeline

\* POST /batches/{batch_id}/failures; critical: deviation_level 3 and no reviewed_by
create_failure(r, b, critical) ==
    \/ /\ arrives(r)
       /\ db[b].unreviewed + in_flight("create_failure", b) < MaxFailures
       /\ IF ~found(b) THEN raise_http("create_failure", 404)
          ELSE await_commit(r, "create_failure", b, NoInput, critical)
       /\ UNCHANGED pipeline
    \/ /\ requests[r] = [op |-> "create_failure", batch_id |-> b, batch_in |-> NoInput, flag |-> critical]
       /\ IF ~found(b)
          THEN commit(r, "create_failure", 409, db)
          ELSE commit(r, "create_failure", 201,
                      [db EXCEPT ![b].unreviewed = IF critical THEN @ + 1 ELSE @])
       /\ UNCHANGED pipeline

minimum_samples == 8

\* POST /batches/{batch_id}/close; the insert trigger of the database sets
\* the batch complete
close_batch(r, b) ==
    \/ /\ arrives(r)
       /\ IF ~found(b) THEN raise_http("close_batch", 404)
          ELSE IF db[b].status # "running" \/ db[b].samples < minimum_samples \/ db[b].unreviewed > 0
          THEN raise_http("close_batch", 422)
          ELSE await_commit(r, "close_batch", b, NoInput, FALSE)
       /\ UNCHANGED pipeline
    \/ /\ requests[r] = [op |-> "close_batch", batch_id |-> b, batch_in |-> NoInput, flag |-> FALSE]
       /\ IF ~found(b) \/ db[b].closure
          THEN commit(r, "close_batch", 409, db)
          ELSE commit(r, "close_batch", 201, [db EXCEPT ![b].closure = TRUE, ![b].status = "complete"])
       /\ UNCHANGED pipeline

\* batches of two vessels, two numbers and two phases
BatchInputs == {[batch_number |-> 1, phase |-> "A", vessel_id |-> "V1"],
                [batch_number |-> 2, phase |-> "A", vessel_id |-> "V1"],
                [batch_number |-> 1, phase |-> "A", vessel_id |-> "V2"],
                [batch_number |-> 1, phase |-> "B", vessel_id |-> "V2"]}

\* batches from creation to inoculation and deletion
BatchNext ==
    \E r \in (1..MaxRequests), b \in BatchIds :
        \/ \E batch_in \in BatchInputs : create_batch(r, batch_in)
        \/ delete_batch(r, b)
        \/ create_media_preparation(r, b)
        \/ \E go_decision \in BOOLEAN : create_inoculation(r, b, go_decision)

BatchSpec == Init /\ [][BatchNext]_vars

\* one batch from creation to closure
ClosureNext ==
    \E r \in (1..MaxRequests), b \in BatchIds :
        \/ create_batch(r, [batch_number |-> 1, phase |-> "A", vessel_id |-> "V1"])
        \/ create_media_preparation(r, b)
        \/ \E pass_ \in BOOLEAN : create_calibration(r, b, pass_)
        \/ \E go_decision \in BOOLEAN : create_inoculation(r, b, go_decision)
        \/ create_sample(r, b)
        \/ \E critical \in BOOLEAN : create_failure(r, b, critical)
        \/ close_batch(r, b)

ClosureSpec == Init /\ [][ClosureNext]_vars

\* ---- the seed scenarios of the cleaner -----------------------------------
\* test_outlier_detection: a level of 7.0 and then the spikes; the same with
\* a longer level and with the last spikes only.  And windows that hold
\* nothing but NaN.
SeedWindows ==
    {[i \in 1..(base + 5 - skip) |-> IF i <= base THEN 700 ELSE 1400 + 100 * (i - base + skip)] :
        base \in 25..29, skip \in {0, 3, 4}}
    \cup UNION {[1..n -> {NaN}] : n \in 1..MaxLen}

SeedFrames ==
    {(tag :> Frame(vs, period, "asc")) :
        tag \in {"pH", "OD"}, vs \in SeedWindows, period \in Periods}

SeedInit ==
    /\ pc = [t \in Threads |-> IF t = LoopThread THEN "idle" ELSE "none"]
    /\ is_running = FALSE
    /\ cycle_count = 0
    /\ quality_stats = InitialStats
    /\ history = EmptyHistory
    /\ influx_closed = FALSE
    /\ stop_requested = FALSE
    /\ http_status = 0
    /\ raw_windows = [t \in Threads |-> "none"]
    /\ read_error = [t \in Threads |-> FALSE]
    /\ wrote = [t \in Threads |-> FALSE]
    /\ result = [t \in Threads |-> "none"]
    /\ step = "clean"
    /\ sensor_windows \in SeedFrames
    /\ cleaned_windows = <<>>
    /\ quality_reports = <<>>
    /\ feature_set = <<>>
    /\ lines = <<>>
    /\ alerts = {}
    /\ loaded = [t \in Threads |-> [key |-> "none", value |-> 0]]
    /\ NoRequests

\* the clean and engineer stages of one cycle
SeedNext == cycle_clean \/ cycle_engineer

SeedSpec == SeedInit /\ [][SeedNext]_vars

\* ---- properties ---------------------------------------------------------
LoopPcs == CyclePcs \cup {"check", "sleep", "except_sleep"}

\* the worker loops that are executing run_continuous
RunningLoops == {w \in Workers : pc[w] \in LoopPcs}

\* stop() is the only caller of InfluxClient.close()
StopNeverCalled == ~influx_closed

\* C1: calling start twice does not double-start.  While stop() has never
\* been called, whatever number of POST /start requests were handled, at most
\* one worker loop is executing run_continuous.
C1_NoDoubleStart == StopNeverCalled => Cardinality(RunningLoops) <= 1

\* C2: a single logical worker drives the cycles.  At most one execution of
\* process_window (worker cycle or one-shot) is in progress in any state.
C2_OneCycleAtATime == InFlight <= 1

\* C3: reset_batch never races with a cycle.  A POST /reset that changes the
\* batch state is not executed while a process_window is in progress.
C3_ResetNotMidCycle ==
    [][reset_pipeline /\ BatchState' # BatchState => InFlight = 0]_vars

\* C4: process_window never raises to its caller.  Every step that ends a
\* cycle, whatever stage failed, hands the caller the FeatureSet or the
\* failure indicator None, and the one-shot endpoint answers 500 exactly when
\* it was handed None.
C4_NeverRaises ==
    [][/\ \A t \in Threads :
             pc[t] \in CyclePcs /\ pc'[t] \notin CyclePcs
                => result'[t] \in {"features", "None"}
       /\ pc[LoopThread] = "respond" /\ pc'[LoopThread] = "idle"
                => /\ result[LoopThread] \in {"features", "None"}
                   /\ (http_status' = 500) = (result[LoopThread] = "None")
                   /\ (http_status' = 200) = (result[LoopThread] = "features")]_vars

\* a one-shot cycle failed in a stage and was answered with 500
C4_Witness == http_status = 500 /\ pc[LoopThread] = "idle"

\* the order of the stages of a cycle
StageOrder == <<"fetch", "clean", "engineer", "write", "metrics", "alerts">>

\* C5: the stages of a cycle occur in the order fetch, clean, engineer,
\* write, metrics, alerts.  A step of a cycle that does not fail moves from
\* one stage to the next one of StageOrder, and only the last stage, alerts,
\* ends the cycle with its FeatureSet: alerts come after the feature write.
C5_StageOrder ==
    [][\A t \in Threads :
          pc[t] \in CyclePcs /\ pc'[t] # pc[t] /\ result'[t] # "None"
             => \E i \in 1..Len(StageOrder) :
                   /\ pc[t] = StageOrder[i]
                   /\ IF i < Len(StageOrder)
                      THEN pc'[t] = StageOrder[i + 1]
                      ELSE result'[t] = "features"]_vars

\* C6: a read of the store that fails for another reason than absence of
\* data fails the cycle.  A cycle whose fetch hit a query error never returns
\* a FeatureSet (so it does not count the cycle) and writes no features.
C6_ReadErrorFailsCycle ==
    [][\A t \in Threads :
          read_error[t] => result'[t] # "features" /\ ~wrote'[t]]_vars

\* C7: a failed cycle does not abort the worker.  After a cycle of a worker
\* that returned the failure indicator, and after an exception caught by the
\* loop, the worker begins another cycle, unless a stop is requested
\* (is_running cleared) or the cap of cycle_count leaves no cycle to begin.
C7_FailedCycleRetried ==
    \A w \in Workers :
        (result[w] = "None" \/ pc[w] = "except_sleep")
            ~> (pc[w] = "fetch" \/ ~is_running \/ ~CycleBudget)

\* a worker sleeps after a failed cycle while the pipeline is still running
C7_Witness ==
    \E w \in Workers :
        pc[w] = "sleep" /\ result[w] = "None" /\ is_running /\ CycleBudget

\* C8: after stop() and without a later start, the worker loop exits and no
\* new cycle is started.  While a stop is requested and no start has launched
\* a worker since, no worker loop passes its `while self.is_running` test
\* into a new cycle.
C8_NoNewCycleAfterStop ==
    [][stop_requested /\ stop_requested'
          => \A w \in Workers : ~(pc[w] = "check" /\ pc'[w] = "fetch")]_vars

C10_ResetBatch ==
    [][reset_pipeline
          => /\ \A k \in StatKeys : quality_stats'[k] = 0
             /\ DOMAIN quality_stats' = StatKeys
             /\ history' = EmptyHistory
             /\ cycle_count' = 0
             /\ reset_batch(BatchState') = BatchState']_vars

\* a reset has been applied and left the batch state at zero
C10_Witness ==
    /\ http_status = 200
    /\ quality_stats = InitialStats /\ history = EmptyHistory /\ cycle_count = 0

\* ---- cumulative features -------------------------------------------------
\* the rate a cumulative feature integrates
RateOf == [cumulative_CO2 |-> "CER", cumulative_O2 |-> "OUR", cumulative_OD |-> "OD_mean"]

\* 10^-6 in the unit of each cumulative feature (rounded up): CER and OUR are
\* kept in 10^-4 mol/L/h and OD in hundredths, and times_dt leaves a factor
\* 3600
TenToMinus6 == [cumulative_CO2 |-> 36, cumulative_O2 |-> 36, cumulative_OD |-> 1]

\* what one cycle adds to a cumulative feature: rate * dt, 0 for an absent rate
Contribution(features, k) == FMulN(Get(features, RateOf[k], 0), window_size_seconds)

\* an engineer step / a reset step of DataSpec
EngineerStep == step = "engineer" /\ step' = "write"
ResetStep == step = "idle" /\ step' = "idle" /\ http_status' = 200

\* C11 as stated: on the first cycle after reset_batch() each of the three
\* emitted cumulative features is below 10^-6, whatever the rates of the cycle.
C11_Original ==
    [][(EngineerStep /\ history = EmptyHistory /\ http_status = 200)
          => \A k \in CumKeys : FLt(feature_set'[k], TenToMinus6[k])]_vars

\* C11, amended: reset_batch() leaves no cumulative sum behind, and on the
\* first cycle after it each emitted cumulative feature is exactly what that
\* cycle contributes, rate * dt (0 for an absent rate, NaN for a NaN rate).
C11_FirstCycleAfterReset ==
    [][/\ ResetStep => history' = EmptyHistory
       /\ (EngineerStep /\ history = EmptyHistory)
             => \A k \in CumKeys : feature_set'[k] = Contribution(feature_set', k)]_vars

\* a first cycle after a reset that integrated a positive OD_mean
C11_Witness ==
    /\ step = "write"
    /\ http_status = 200
    /\ cycle_count = 0
    /\ quality_stats = InitialStats
    /\ "OD_mean" \in DOMAIN feature_set
    /\ feature_set["OD_mean"] = 200
    /\ feature_set["cumulative_OD"] = times_dt(200)

\* C12: every engineer cycle emits, for each cumulative feature, the sum it
\* held before (0 right after a reset) plus rate * dt of this cycle (0 for an
\* absent rate) and keeps what it emitted as the new history; no other step
\* than an engineer cycle or a reset changes the history.  After N cycles
\* from a reset the features are therefore the sums of the N contributions.
C12_Integration ==
    [][/\ EngineerStep =>
            /\ \A k \in CumKeys :
                  feature_set'[k] = FAdd(Get(history, k, 0), Contribution(feature_set', k))
            /\ history' = [k \in CumKeys |-> feature_set'[k]]
       /\ ~(EngineerStep \/ ResetStep) => history' = history]_vars

\* the second cycle of a batch, both cycles on a steady OD of 2.00 and the
\* same positive CER and OUR
C12_Witness ==
    /\ step = "write"
    /\ cycle_count = 1
    /\ {"OD_mean", "CER", "OUR"} \subseteq DOMAIN feature_set
    /\ feature_set["OD_mean"] = 200
    /\ feature_set["CER"] > 0
    /\ feature_set["OUR"] > 0
    /\ feature_set["cumulative_OD"] = 2 * 200 * window_size_seconds
    /\ feature_set["cumulative_CO2"] = 2 * feature_set["CER"] * window_size_seconds
    /\ feature_set["cumulative_O2"] = 2 * feature_set["OUR"] * window_size_seconds

\* C13: between two resets the cumulative_OD a pipeline cycle emits is a
\* number, and at least the one the previous cycle emitted (0 if there was
\* none), whatever the OD window of the cycle holds.
C13_CumulativeODMonotone ==
    [][EngineerStep =>
          /\ isfinite(feature_set'["cumulative_OD"])
          /\ feature_set'["cumulative_OD"] >= Get(history, "cumulative_OD", 0)]_vars

\* ---- cleaning ------------------------------------------------------------
\* v is inside the physical interval declared under the name tag
WithinBounds(v, tag) ==
    /\ isfinite(v)
    /\ physical_bounds[tag].min <= v
    /\ v <= physical_bounds[tag].max

\* C14: every value of every window the engineer is handed by process_window
\* is NaN, or finite and inside the physical interval of the signal the
\* window carries.
C14_EngineerSeesPlausibleValues ==
    \A tag \in DOMAIN cleaned_windows :
        \A i \in 1..Len(cleaned_windows[tag]) :
            \/ isna(cleaned_windows[tag][i])
            \/ WithinBounds(cleaned_windows[tag][i], canonical_name(tag))

\* v is a number outside the interval declared under the name tag
Outside(v, tag) == FLt(v, physical_bounds[tag].min) \/ FGt(v, physical_bounds[tag].max)

\* the windows clean_window has been applied to, under a name with an interval
CleanedKnown == IF step = "engineer" THEN DOMAIN sensor_windows \cap DOMAIN physical_bounds ELSE {}

\* the raw values in time order
Raw(tag) == Values(sort_values(sensor_windows[tag]))

\* what clean_window reports and returns for the out-of-interval samples
BoundsFlagged(tag) ==
    /\ quality_reports[tag].invalid_values > 0
    /\ quality_reports[tag].alarm = "physical_bounds_violation"
    /\ \A i \in 1..Len(Raw(tag)) : Outside(Raw(tag)[i], tag) => isna(cleaned_windows[tag][i])

NaNCountIsInvalid(tag) ==
    (\A i \in 1..Len(Raw(tag)) : ~isna(Raw(tag)[i]))
        => Count(cleaned_windows[tag], isna) = quality_reports[tag].invalid_values

\* C15 as stated: a raw window of a tag with a known interval that holds a
\* value outside the interval comes back with invalid_values > 0, the alarm
\* physical_bounds_violation and those samples NaN, and without missing
\* samples the NaN of the cleaned window are invalid_values many.
C15_Original ==
    \A tag \in CleanedKnown :
        (\E i \in 1..Len(Raw(tag)) : Outside(Raw(tag)[i], tag))
            => (BoundsFlagged(tag) /\ NaNCountIsInvalid(tag))

\* C15, amended: the same for the windows whose samples reach the bounds
\* stage as they were read, that is when the smoother was not taken and the
\* outlier stage clipped nothing; and for every window without missing
\* samples the NaN of the cleaned window are invalid_values many and the
\* alarm is set exactly when invalid_values > 0.
C15_OutOfBoundsFlagged ==
    \A tag \in CleanedKnown :
        /\ ( /\ \E i \in 1..Len(Raw(tag)) : Outside(Raw(tag)[i], tag)
             /\ quality_reports[tag].interpolation_method # "kalman"
             /\ quality_reports[tag].outliers_detected = 0 )
              => BoundsFlagged(tag)
        /\ NaNCountIsInvalid(tag)
        /\ (quality_reports[tag].alarm = "physical_bounds_violation")
              <=> (quality_reports[tag].invalid_values > 0)

\* a pH window read out of time order and repaired by linear interpolation:
\* the samples above and below the interval, and the one filled in from the
\* sample above, are set to NaN
C15_Witness ==
    /\ step = "engineer"
    /\ "pH" \in DOMAIN sensor_windows
    /\ Values(sensor_windows["pH"]) = <<NaN, 1200, 700, 50>>
    /\ sensor_windows["pH"][1].time = 3
    /\ quality_reports["pH"].interpolation_method = "linear"
    /\ quality_reports["pH"].invalid_values = 3
    /\ quality_reports["pH"].alarm = "physical_bounds_violation"
    /\ cleaned_windows["pH"] = <<NaN, 700, NaN, NaN>>

\* every window clean_window has been applied to
Cleaned == IF step = "engineer" THEN DOMAIN sensor_windows ELSE {}

\* the estimated gap (missing_count / total_count) * span_minutes of a raw
\* window is below a number of minutes
GapBelow(tag, minutes) ==
    LET rows == sort_values(sensor_windows[tag])
        span_seconds == rows[Len(rows)].time - rows[1].time
    IN Count(Raw(tag), isna) * span_seconds < minutes * 60 * Len(rows)

\* the mode of the report is the one the gap selects
ModeSelected(tag) ==
    LET mode == quality_reports[tag].interpolation_method
    IN /\ mode = "none" <=> Count(Raw(tag), isna) = 0
       /\ mode = "linear" <=> (Count(Raw(tag), isna) > 0 /\ GapBelow(tag, 5))
       /\ mode = "kalman" <=> (Count(Raw(tag), isna) > 0 /\ ~GapBelow(tag, 5) /\ GapBelow(tag, 30))
       /\ mode = "failed" <=> (Count(Raw(tag), isna) > 0 /\ ~GapBelow(tag, 30))

\* in failed mode the missing samples are still NaN
FailedLeavesNaN(tag) ==
    quality_reports[tag].interpolation_method = "failed"
        => \A i \in 1..Len(Raw(tag)) : isna(Raw(tag)[i]) => isna(cleaned_windows[tag][i])

LinearWithAFiniteSample(tag) ==
    /\ quality_reports[tag].interpolation_method = "linear"
    /\ \E i \in 1..Len(Raw(tag)) : isfinite(Raw(tag)[i])

\* C16 as stated: the mode is none without missing samples, linear for a gap
\* below 5 min, smoother from 5 min to below 30 min, failed from 30 min on;
\* failed leaves the NaN in place, and in linear mode with a finite sample
\* the cleaned window is fully finite.
C16_Original ==
    \A tag \in Cleaned :
        /\ ModeSelected(tag)
        /\ FailedLeavesNaN(tag)
        /\ LinearWithAFiniteSample(tag)
              => \A i \in 1..Len(cleaned_windows[tag]) : isfinite(cleaned_windows[tag][i])

\* C16, amended: the same selection of the mode; failed leaves the NaN in
\* place; in linear mode with a finite sample every missing sample is filled,
\* so that the only NaN of the cleaned window are the invalid_values samples
\* the bounds stage has removed, and every other sample is finite.
C16_ModeByGap ==
    \A tag \in Cleaned :
        /\ ModeSelected(tag)
        /\ FailedLeavesNaN(tag)
        /\ LinearWithAFiniteSample(tag)
              => /\ Count(cleaned_windows[tag], isna) = quality_reports[tag].invalid_values
                 /\ \A i \in 1..Len(cleaned_windows[tag]) :
                       isna(cleaned_windows[tag][i]) \/ isfinite(cleaned_windows[tag][i])

\* a gap of exactly 5 min sent to the smoother
C16_Witness ==
    /\ step = "engineer"
    /\ "pH" \in DOMAIN sensor_windows
    /\ Len(sensor_windows["pH"]) = 4
    /\ Count(Raw("pH"), isna) = 1
    /\ ~GapBelow("pH", 5)
    /\ Count(Raw("pH"), isna) * 1200 = 5 * 60 * 4
    /\ sensor_windows["pH"][4].time - sensor_windows["pH"][1].time = 1200
    /\ quality_reports["pH"].interpolation_method = "kalman"

\* ---- features ------------------------------------------------------------
\* a FeatureSet has been returned by engineer_features
Engineered == step \in {"write", "idle"} /\ feature_set # <<>>

\* a feature point has been published
Published == step = "idle" /\ lines # <<>>

OURPositive == "OUR" \in DOMAIN feature_set /\ FGt(feature_set["OUR"], 0)

\* C17 as stated: RQ is in the returned FeatureSet, and in the published
\* point, exactly when OUR was computed and is > 0, and is then CER / OUR.
C17_Original ==
    /\ Engineered =>
          /\ "RQ" \in DOMAIN feature_set <=> OURPositive
          /\ OURPositive => feature_set["RQ"] = (100 * feature_set["CER"]) \div feature_set["OUR"]
    /\ Published => ("RQ" \in DOMAIN lines <=> OURPositive)

\* C17, amended: the returned FeatureSet has the key RQ exactly when OUR was
\* computed; its value is CER / OUR when OUR > 0 and NaN when OUR <= 0.  The
\* published point has RQ exactly when OUR was computed and is > 0, with the
\* value of the FeatureSet.
C17_RQ ==
    /\ Engineered =>
          /\ "RQ" \in DOMAIN feature_set <=> "OUR" \in DOMAIN feature_set
          /\ "OUR" \in DOMAIN feature_set =>
                IF OURPositive
                THEN feature_set["RQ"] = (100 * feature_set["CER"]) \div feature_set["OUR"]
                ELSE isna(feature_set["RQ"])
    /\ Published =>
          /\ "RQ" \in DOMAIN lines <=> OURPositive
          /\ "RQ" \in DOMAIN lines => lines["RQ"] = feature_set["RQ"]

\* a published cycle whose OUR is negative: RQ is NaN in the FeatureSet and
\* not in the point
C17_Witness ==
    /\ Published
    /\ "OUR" \in DOMAIN lines
    /\ lines["OUR"] < 0
    /\ isna(feature_set["RQ"])
    /\ "RQ" \notin DOMAIN lines

PhaseNames == {"phase_lag", "phase_exp", "phase_stationary"}

\* mu has been computed and is a number
MuKnown == "mu" \in DOMAIN feature_set /\ ~isna(feature_set["mu"])

\* the phase the claim assigns to a growth rate (in hundredths per hour)
PhaseOf(mu) == IF mu < 2 THEN "phase_lag" ELSE IF mu >= 8 THEN "phase_exp" ELSE "phase_stationary"

\* C18: when mu is known the three phase features are emitted, 1 for the
\* phase of mu (lag below 0.02, exp from 0.08, stationary in between) and 0
\* for the other two; when mu is not known none of the three is emitted.
C18_PhaseOneHot ==
    Engineered =>
        IF MuKnown
        THEN /\ PhaseNames \subseteq DOMAIN feature_set
             /\ \A ph \in PhaseNames :
                   feature_set[ph] = IF ph = PhaseOf(feature_set["mu"]) THEN 100 ELSE 0
        ELSE PhaseNames \cap DOMAIN feature_set = {}

\* C19: every value of a published point is finite, and the point holds
\* exactly the features of the cycle whose value is finite.
C19_PublishedFinite ==
    Published =>
        /\ \A name \in DOMAIN lines : isfinite(lines[name])
        /\ DOMAIN lines = {name \in DOMAIN feature_set : isfinite(feature_set[name])}

\* ---- alerts --------------------------------------------------------------
\* C20: when a cycle has completed, the alerts published in it are exactly
\* those of the conditions that tripped, one each: error/data_quality per
\* report with an alarm, warning/missing_data for missing_count > 15,
\* critical/sensor_failure for invalid_values > 0, warning/process_anomaly
\* for mu < 0 or mu > 0.5, info/metabolic_shift for RQ outside [0.5, 1.5],
\* warning/equipment_warning for motor_temp > 70.
C20_AlertsPerCycle ==
    (step = "idle" /\ result[LoopThread] = "features")
        => alerts = check_quality_thresholds(quality_reports)
                      \cup check_feature_thresholds(feature_set)

\* ---- names of the windows -----------------------------------------------
\* C21: the windows process_window passes to engineer_features are keyed by
\* the canonical names of the signals, and a cycle whose motor temperature
\* signal has data emits the thermal feature motor_temp.
C21_CanonicalWindows ==
    /\ step \in {"engineer", "write"}
          => DOMAIN cleaned_windows = {canonical_name(tag) : tag \in TagSet}
    /\ (step = "write" /\ Len(sensor_windows["stirrer_motor"]) > 0)
          => "motor_temp" \in DOMAIN feature_set

\* ---- counters ------------------------------------------------------------
\* C22: without a reset no step lowers a QualityStats counter or cycle_count,
\* whatever cycles (successful, failed, one-shot) are run, and a clean stage
\* on empty windows leaves the counters as they are.
C22_CountersMonotone ==
    [][/\ \A k \in StatKeys : quality_stats'[k] >= quality_stats[k]
       /\ cycle_count' >= cycle_count
       /\ \A t \in Threads :
             (pc[t] = "clean" /\ pc'[t] # "clean" /\ raw_windows[t] = "empty")
                 => quality_stats' = quality_stats]_vars

\* ---- batch records ---------------------------------------------------------
Vessels == {batch_in.vessel_id : batch_in \in BatchInputs}

\* C23: at any time at most one batch of a vessel is pending or running, also
\* when create requests for the vessel are served concurrently.
C23_OneActiveBatchPerVessel ==
    \A v \in Vessels : Cardinality(active_on(v)) <= 1

ClosureCreated(b) == db'[b].closure /\ ~db[b].closure

MayClose(b) ==
    /\ found(b)
    /\ db[b].status = "running"
    /\ db[b].samples >= minimum_samples
    /\ db[b].unreviewed = 0

\* C24: a closure is stored only for an existing running batch with at least
\* 8 samples and no unreviewed level-3 failure, a close request that stores
\* none is answered 404 or 422, a calibration is stored only while its batch is
\* pending and a sample only while its batch is running.
C24_ClosureAndRecords ==
    [][\A b \in BatchIds :
          /\ ClosureCreated(b) => MayClose(b)
          /\ (\E r \in (1..MaxRequests) : requests[r].op = "close_batch" /\ requests[r].batch_id = b
                                  /\ requests'[r] = NoRequest /\ ~ClosureCreated(b))
                => response'.code \in {404, 422}
          /\ db'[b].calibrations > db[b].calibrations => db[b].status = "pending"
          /\ db'[b].samples > db[b].samples => db[b].status = "running"]_vars

\* ---- the thresholds of the missing-value stage ------------------------------
\* the estimated gap of a raw window with missing samples is above a number
\* of minutes
GapAbove(tag, minutes) ==
    LET rows == sort_values(sensor_windows[tag])
        span_seconds == rows[Len(rows)].time - rows[1].time
    IN /\ Count(Raw(tag), isna) > 0
       /\ Count(Raw(tag), isna) * span_seconds > minutes * 60 * Len(rows)

GapExactly(tag, minutes) ==
    /\ Count(Raw(tag), isna) > 0
    /\ ~GapBelow(tag, minutes)
    /\ ~GapAbove(tag, minutes)

ModeOf(tag) == quality_reports[tag].interpolation_method

\* C25 as stated: a gap of exactly 5.0 min selects linear interpolation, a
\* gap above 5.0 min (and below 30.0) the smoother, a gap above 30.0 min failed.
C25_Original ==
    \A tag \in Cleaned :
        /\ GapExactly(tag, 5) => ModeOf(tag) = "linear"
        /\ (GapAbove(tag, 5) /\ GapBelow(tag, 30)) => ModeOf(tag) = "kalman"
        /\ GapAbove(tag, 30) => ModeOf(tag) = "failed"

\* C25, amended: the thresholds belong to the upper mode.  A gap of exactly
\* 5.0 min selects the smoother, as every gap above 5.0 and below 30.0 min
\* does; a gap of exactly 30.0 min selects failed, as every gap above it does;
\* linear interpolation is selected by the gaps below 5.0 min only.
C25_ThresholdsSelectUpperMode ==
    \A tag \in Cleaned :
        /\ GapExactly(tag, 5) => ModeOf(tag) = "kalman"
        /\ (GapAbove(tag, 5) /\ GapBelow(tag, 30)) => ModeOf(tag) = "kalman"
        /\ GapExactly(tag, 30) => ModeOf(tag) = "failed"
        /\ GapAbove(tag, 30) => ModeOf(tag) = "failed"
        /\ ModeOf(tag) = "linear" => GapBelow(tag, 5)

\* a motor window of four rows 400 s apart, one of them missing: 5.0 min
C25_Witness ==
    /\ step = "engineer"
    /\ "stirrer_motor" \in DOMAIN sensor_windows
    /\ Len(sensor_windows["stirrer_motor"]) = 4
    /\ GapExactly("stirrer_motor", 5)
    /\ ModeOf("stirrer_motor") = "kalman"

\* C26: when the missing-value stage selects failed, the report clean_window
\* returns carries the mode failed and the alarm missing_data_too_long; the
\* outlier and bounds stages do not erase it.
C26_FailedKeepsAlarm ==
    \A tag \in Cleaned :
        ModeOf(tag) = "failed"
            => Get(quality_reports[tag], "alarm", "None") = "missing_data_too_long"

\* ---- outliers ------------------------------------------------------------
\* the rows of a raw window that are spikes: 15.0 and above over a level of 7.0
Spikes(tag) == {i \in 1..Len(Raw(tag)) : ~isna(Raw(tag)[i]) /\ Raw(tag)[i] >= 1500}

SpikeWindow(tag) ==
    /\ Spikes(tag) # {}
    /\ 2 * Cardinality(Spikes(tag)) < Len(Raw(tag))
    /\ \A i \in 1..Len(Raw(tag)) : i \notin Spikes(tag) => Raw(tag)[i] = 700

\* C27: in a window whose minority of samples are spikes far above the rest
\* (25 samples at 7.0 and 15, 16, 17, 18, 19) clean_window counts every spike
\* as an outlier and the largest cleaned value is below the smallest spike.
C27_SpikesCounted ==
    \A tag \in Cleaned :
        SpikeWindow(tag)
            => /\ quality_reports[tag].outliers_detected >= Cardinality(Spikes(tag))
               /\ \A i \in 1..Len(cleaned_windows[tag]) :
                     isna(cleaned_windows[tag][i]) \/ cleaned_windows[tag][i] < 1500

\* ---- windows without a finite sample ---------------------------------------
StatisticsOf(tag) == {feature_name[tag][st] : st \in {"mean", "std", "min", "max", "slope"}}

AllNaN(tag) ==
    /\ Len(sensor_windows[tag]) > 0
    /\ \A i \in 1..Len(sensor_windows[tag]) : isna(sensor_windows[tag][i].value)

\* C28: a window of n samples that are all NaN is reported with
\* missing_count = n and the FeatureSet of the cycle holds none of the tag's
\* statistics; statistics are emitted only for tags with two finite points.
C28_NoStatisticsWithoutData ==
    step = "write"
        => \A tag \in DOMAIN sensor_windows :
              /\ AllNaN(tag)
                    => /\ quality_reports[tag].missing_count = Len(sensor_windows[tag])
                       /\ StatisticsOf(tag) \cap DOMAIN feature_set = {}
              /\ StatisticsOf(tag) \cap DOMAIN feature_set # {}
                    => Count(cleaned_windows[tag], isfinite) >= 2

\* ---- start and stop again -----------------------------------------------
\* stop() has cleared is_running and these loops have not left run_continuous
ToldToStop == IF is_running THEN {} ELSE RunningLoops

\* C29: under any interleaving of start and stop requests at most one worker
\* loop is active, and a worker that was told to stop is not resumed by a
\* later start: is_running is not set back to true while a loop that stop()
\* has told to stop is still in run_continuous.
C29_StoppedWorkerStaysStopped ==
    [][/\ Cardinality(RunningLoops) <= 1
       /\ (~is_running /\ is_running') => ToldToStop = {}]_vars

\* ---- the gateway ------------------------------------------------------------
\* a thread performs the read (get_all_sensor_windows) or the write
\* (write_features) of its cycle in this step
UsesGateway(t) ==
    \/ pc[t] = "fetch" /\ pc'[t] # "fetch"
    \/ pc[t] = "write" /\ pc'[t] # "write"

\* C30: the gateway is never used after it has been closed.  It is closed
\* only when no worker loop is left, no cycle reads or writes on a closed
\* gateway, and a worker launched by a start after a stop begins its cycles
\* with the gateway open.
C30_GatewayNotUsedClosed ==
    [][/\ (~influx_closed /\ influx_closed') => RunningLoops = {}
       /\ \A t \in Threads : UsesGateway(t) => ~influx_closed
       /\ \A w \in Workers : (pc[w] = "task" /\ pc'[w] = "check") => ~influx_closed]_vars
====
